---- MODULE Spec2Model ----
(***************************************************************************)
(* RTMP relay (cnlab2021-lyb/rtmp).                                        *)
(*                                                                         *)
(* Spec      : the session engine and the media registry of server.rs, one *)
(*             worker per connection, every handler one step except where  *)
(*             the code releases the registry lock in between (play, data).*)
(* SpecWire  : the same workers at the grain of one write_all on a socket, *)
(*             three per chunk sent by send_message of stream.rs.          *)
(* SpecReply : handle_connect and handle_play of server.rs, one            *)
(*             send_message per step.                                      *)
(* SpecAmf   : encode_amf_messages and decode_amf_message of amf.rs on one *)
(*             value.                                                      *)
(* SpecChunk : read_message of stream.rs on the bytes of one connection,   *)
(*             with the SetChunkSize handler of server.rs.                 *)
(***************************************************************************)
EXTENDS Integers, Sequences, FiniteSets, TLC

\* ------------------------------------------------------------------ bounds
NumConns == 3
MaxOps   == 4

\* --------------------------------------------------------------- constants
RTMP_SET_CHUNK_SIZE == 1
RTMP_ABORT_MESSAGE == 2
RTMP_ACKNOWLEDGEMENT == 3
RTMP_USER_CONTROL_MESSAGE == 4
RTMP_WINDOW_ACK_SIZE == 5
RTMP_SET_PEER_BANDWIDTH == 6
RTMP_COMMAND_MESSAGE_AMF0 == 20
RTMP_DATA_MESSAGE_AMF0 == 18
RTMP_COMMAND_MESSAGE_AMF3 == 17
RTMP_DATA_MESSAGE_AMF3 == 15
RTMP_AUDIO_MESSAGE == 8
RTMP_VIDEO_MESSAGE == 9
RTMP_NET_CONNECTION_STREAM_ID == 0
RTMP_PROTOCOL_CONTROL_MESSAGE_STREAM_ID == 0
RTMP_USER_CONTROL_SET_BUFFER_LENGTH == 3
RTMP_PROTOCOL_CONTROL_CHUNK_STREAM_ID == 2

Conns == 1..NumConns
NameOrder == <<"live", "cam">>
Names == {NameOrder[k] : k \in 1..Len(NameOrder)}
\* message-stream id the clients use for their NetStream
ClientStreamId == 1

VARIABLES
  media_streams,  \* RtmpServer.media_streams: name -> RtmpMediaStream
  stream_name,    \* RtmpServer.stream_name of every connection
  status,         \* worker of a connection: "open", "closed" (serve returned
                  \* Ok), "MissingMediaStream" (serve returned that Error),
                  \* "failed" (serve returned another Err), "panicked"
  pc,             \* position of the worker inside a handler
  arg,            \* what the suspended handler carries across the lock,
                  \* and the name of the last command handled by Command
  wire,           \* messages written to the socket of every connection
  peerOpen,       \* FALSE once the peer has gone: writes to it fail
  poisoned,       \* the registry Mutex is poisoned
  clock,          \* timestamp source of the media the clients send
  ops,            \* number of messages handled and faults so far
  accepted,       \* connections the listener has accepted so far
  named,          \* stream names the clients have used so far
  \* ---- history
  publisherOf,    \* name -> connection last answered Publish.Start (0: none)
  admitted,       \* names a connection was pushed to by play
  everPaused,     \* connections that ever sent pause(true)
  owed,           \* per subscriber: publisher media handled since admission
  got,            \* per subscriber: publisher media written to it
  lastBroadcast,  \* the latest run of RtmpMediaStream::broadcast
  admission,      \* per connection: its latest admission by play
  pauseFlag,      \* per connection: the flag of the latest pause it sent
  \* ---- SpecWire: the same sockets, one write_all call at a time
  sock,           \* segments written to the socket of every connection
  job,            \* segments the worker of a connection still has to write
  lockHolder,     \* the worker holding the registry lock (0: free)
  bjob,           \* writes left in the broadcast of the lock holder
  \* ---- SpecReply: the replies of a handler, one send_message at a time
  sending,        \* messages the running handler of a connection has left
  sendLog,        \* per connection: the send_message calls of its handler
  \* ---- SpecAmf: one AMF-0 value through the encoder and the decoder
  amfValue,       \* the AmfObject
  amfBytes,       \* encode_amf_messages(&[amfValue])
  amfResult,      \* decode_amf_message on a Cursor over amfBytes
  amfPc,          \* "value", "encoded", "decoded", "received", "parsed"
  \* ---- SpecChunk: the chunk reader of one connection and its client
  hello,                \* the handshake bytes the client has sent, if any
  inbuf,                \* bytes the client has sent and serve has not read
  channels,             \* RtmpMessageStreamImpl.channels: csid -> partial
  prev_message_header,  \* csid -> (ChunkMessageHeader, chunk type)
  max_chunk_size_read,
  reader,               \* "handshake", "open", "panicked" or the Error
  emitted,              \* messages read_message returned, in order
  cchunk,               \* the chunk size the client fragments with
  cmsg,                 \* csid -> payload bytes the client still has to send
  clast,                \* csid -> the message the client sent there last
  nsent,                \* chunks the client has sent
  \* ---- history
  sent,                 \* csid -> the message the client began there last
  reads,                \* csid -> the read_message calls for that message
  lastSet,              \* size of the latest SetChunkSize handled, if any
  sinceSet,             \* payload bytes of every chunk read since then
  alone,                \* csid -> a reader given the chunks of csid alone
  basic_header          \* the bytes given to read_chunk_basic_header, then its result

vars == <<media_streams, stream_name, status, pc, arg, wire, peerOpen,
          poisoned, clock, ops, accepted, named, publisherOf, admitted, everPaused, owed,
          got, lastBroadcast, admission, pauseFlag, sock, job, lockHolder,
          bjob, sending, sendLog, amfValue, amfBytes, amfResult, amfPc, hello, inbuf, channels, prev_message_header, max_chunk_size_read,
          reader, emitted, cchunk, cmsg, clast, nsent, sent, reads, lastSet,
          sinceSet, alone, basic_header>>

histVars == <<publisherOf, admitted, everPaused, owed, got, lastBroadcast,
              admission, pauseFlag>>

wireVars == <<sock, job, lockHolder, bjob>>

replyVars == <<sending, sendLog>>

amfVars == <<amfValue, amfBytes, amfResult, amfPc>>

chunkVars == <<hello, inbuf, channels, prev_message_header, max_chunk_size_read,
               reader, emitted, cchunk, cmsg, clast, nsent, sent, reads,
               lastSet, sinceSet, alone, basic_header>>

EmptyMap == [x \in {} |-> 0]

\* ---------------------------------------------------------------- helpers
Last(s) == s[Len(s)]

\* Payload of a message, as the fields the AMF bytes carry.
Payload(cmd, level, code, src, seq) ==
  [cmd |-> cmd, level |-> level, code |-> code, src |-> src, seq |-> seq]

\* A message on the wire: what send_message was called with.
WireMsg(csid, msid, ts, type, payload) ==
  [chunk_stream_id |-> csid, message_stream_id |-> msid, timestamp |-> ts,
   message_type_id |-> type, message |-> payload]

\* A message read from a client.
Message(msid, ts, type, payload) ==
  [header |-> [message_stream_id |-> msid, timestamp |-> ts,
               message_type_id |-> type],
   message |-> payload]

RtmpClient(fd) == [from_fd |-> fd, paused |-> FALSE]

RtmpMediaStreamDefault ==
  [clients |-> <<>>, metadata |-> <<>>, published |-> FALSE]

\* HashMap::entry(name).or_insert_with(default)
OrInsert(ms, name) ==
  IF name \in DOMAIN ms THEN ms
  ELSE [n \in DOMAIN ms \cup {name} |->
          IF n = name THEN RtmpMediaStreamDefault ELSE ms[n]]

\* HashMap::remove(name)
MapRemove(ms, name) == [n \in DOMAIN ms \ {name} |-> ms[n]]

on_status(code, success) ==
  Payload("onStatus", IF success THEN "status" ELSE "error", code, 0, 0)

\* send_message on a socket: the write fails once the peer is gone.
WriteOk(c) == peerOpen[c]

\* The messages handle_play writes before it takes the registry lock.
\* (variant: the |RtmpSampleAccess data message is written first)
PlayReplies_DataFirst ==
  << WireMsg(3, RTMP_NET_CONNECTION_STREAM_ID, 0, RTMP_DATA_MESSAGE_AMF0,
             Payload("|RtmpSampleAccess", "", "", 0, 0)),
     WireMsg(RTMP_PROTOCOL_CONTROL_CHUNK_STREAM_ID,
             RTMP_PROTOCOL_CONTROL_MESSAGE_STREAM_ID, 0, RTMP_SET_CHUNK_SIZE,
             Payload("SetChunkSize", "", "", 0, 2147483647)),
     WireMsg(RTMP_PROTOCOL_CONTROL_CHUNK_STREAM_ID,
             RTMP_PROTOCOL_CONTROL_MESSAGE_STREAM_ID, 0,
             RTMP_USER_CONTROL_MESSAGE,
             Payload("StreamBegin", "", "", 0, 0)),
     WireMsg(3, RTMP_NET_CONNECTION_STREAM_ID, 0, RTMP_COMMAND_MESSAGE_AMF0,
             on_status("NetStream.Play.Reset", TRUE)),
     WireMsg(3, RTMP_NET_CONNECTION_STREAM_ID, 0, RTMP_COMMAND_MESSAGE_AMF0,
             on_status("NetStream.Play.Start", TRUE)) >>

PlayReplies ==
  << WireMsg(RTMP_PROTOCOL_CONTROL_CHUNK_STREAM_ID,
             RTMP_PROTOCOL_CONTROL_MESSAGE_STREAM_ID, 0, RTMP_SET_CHUNK_SIZE,
             Payload("SetChunkSize", "", "", 0, 2147483647)),
     WireMsg(RTMP_PROTOCOL_CONTROL_CHUNK_STREAM_ID,
             RTMP_PROTOCOL_CONTROL_MESSAGE_STREAM_ID, 0,
             RTMP_USER_CONTROL_MESSAGE,
             Payload("StreamBegin", "", "", 0, 0)),
     WireMsg(3, RTMP_NET_CONNECTION_STREAM_ID, 0, RTMP_COMMAND_MESSAGE_AMF0,
             on_status("NetStream.Play.Reset", TRUE)),
     WireMsg(3, RTMP_NET_CONNECTION_STREAM_ID, 0, RTMP_COMMAND_MESSAGE_AMF0,
             on_status("NetStream.Play.Start", TRUE)),
     WireMsg(3, RTMP_NET_CONNECTION_STREAM_ID, 0, RTMP_DATA_MESSAGE_AMF0,
             Payload("|RtmpSampleAccess", "", "", 0, 0)) >>

\* ------------------------------------------- RtmpMediaStream::broadcast
\* A client is written to unless it is paused.
Attempted(client) == ~client.paused

\* Indices (ascending) of the clients whose send_message returned Err.
RECURSIVE OfflineFrom(_, _, _)
OfflineFrom(clients, ok, i) ==
  IF i > Len(clients) THEN <<>>
  ELSE IF Attempted(clients[i]) /\ ~ok[clients[i].from_fd]
       THEN <<i>> \o OfflineFrom(clients, ok, i + 1)
       ELSE OfflineFrom(clients, ok, i + 1)

Offline(clients, ok) == OfflineFrom(clients, ok, 1)

\* offline.iter().for_each(|i| self.clients.remove(*i)): the indices were
\* taken before the first removal; Vec::remove panics past the end.
RECURSIVE RemoveOffline(_, _)
RemoveOffline(clients, offline) ==
  IF offline = <<>> THEN [clients |-> clients, panic |-> FALSE]
  ELSE IF Head(offline) > Len(clients)
       THEN [clients |-> clients, panic |-> TRUE]
       ELSE RemoveOffline(SubSeq(clients, 1, Head(offline) - 1)
                          \o SubSeq(clients, Head(offline) + 1, Len(clients)),
                          Tail(offline))

\* (variant: the message goes to every connection whose socket is alive)
BroadcastWire_Everyone(w, clients, ok, m) ==
  [s \in DOMAIN w |-> IF ok[s] THEN Append(w[s], m) ELSE w[s]]

\* The sockets after the sends of one broadcast: every attempted client
\* whose socket is alive gets the message, in list order.
RECURSIVE BroadcastWire(_, _, _, _)
BroadcastWire(w, clients, ok, m) ==
  IF clients = <<>> THEN w
  ELSE LET cl == Head(clients)
           w1 == IF Attempted(cl) /\ ok[cl.from_fd]
                 THEN [w EXCEPT ![cl.from_fd] = Append(@, m)]
                 ELSE w
       IN BroadcastWire(w1, Tail(clients), ok, m)

\* Number of times one broadcast wrote to connection s.
RECURSIVE TimesWritten(_, _, _)
TimesWritten(clients, ok, s) ==
  IF clients = <<>> THEN 0
  ELSE (IF Head(clients).from_fd = s /\ Attempted(Head(clients)) /\ ok[s]
        THEN 1 ELSE 0) + TimesWritten(Tail(clients), ok, s)

\* What a correct removal would leave: the clients whose index is not in F.
RECURSIVE Without(_, _, _)
Without(clients, F, i) ==
  IF i > Len(clients) THEN <<>>
  ELSE (IF i \in F THEN <<>> ELSE <<clients[i]>>) \o Without(clients, F, i + 1)

\* ----------------------------------------------------------------- Init
AmfNull == [tag |-> "Null", v |-> <<>>]

\* every worker between two messages, nothing written, nothing counted
InitIdle ==
  /\ status = [c \in Conns |-> "open"]
  /\ pc = [c \in Conns |-> "read"]
  /\ arg = [c \in Conns |-> [name |-> "", msg |-> <<>>, cmd |-> <<>>]]
  /\ wire = [c \in Conns |-> <<>>]
  /\ poisoned = FALSE
  /\ clock = 0
  /\ ops = 0
  /\ owed = [c \in Conns |-> <<>>]
  /\ got = [c \in Conns |-> <<>>]
  /\ lastBroadcast = [before |-> <<>>, failed |-> <<>>, after |-> <<>>,
                      panicked |-> FALSE]
  /\ admission = [c \in Conns |-> [at |-> 0, clock |-> 0, cached |-> <<>>]]
  /\ pauseFlag = [c \in Conns |-> <<>>]
  /\ sock = [c \in Conns |-> <<>>]
  /\ job = [c \in Conns |-> <<>>]
  /\ lockHolder = 0
  /\ bjob = <<>>
  /\ sending = [c \in Conns |-> <<>>]
  /\ sendLog = [c \in Conns |-> [handler |-> "", calls |-> <<>>]]
  /\ hello = <<>>
  /\ inbuf = <<>>
  /\ channels = EmptyMap
  /\ prev_message_header = EmptyMap
  /\ max_chunk_size_read = 128
  /\ reader = "handshake"
  /\ emitted = <<>>
  /\ cchunk = 128
  /\ cmsg = EmptyMap
  /\ clast = EmptyMap
  /\ nsent = 0
  /\ sent = EmptyMap
  /\ reads = EmptyMap
  /\ lastSet = <<>>
  /\ sinceSet = <<>>
  /\ alone = EmptyMap
  /\ basic_header = <<>>
  /\ amfBytes = <<>>
  /\ amfResult = [err |-> "", value |-> AmfNull, rest |-> <<>>]
  /\ amfPc = "value"

\* the server and its clients before the first connection
InitServer ==
  /\ InitIdle
  /\ media_streams = [n \in {} |-> RtmpMediaStreamDefault]
  /\ stream_name = [c \in Conns |-> ""]
  /\ peerOpen = [c \in Conns |-> TRUE]
  /\ accepted = 0
  /\ named = 0
  /\ publisherOf = [n \in Names |-> 0]
  /\ admitted = [c \in Conns |-> {}]
  /\ everPaused = {}

Init ==
  /\ InitServer
  /\ amfValue = AmfNull

\* RtmpServer::new: connections are accepted in turn, and c is served once
\* it has been accepted
Accept(c) ==
  /\ c <= accepted + 1
  /\ accepted' = IF c > accepted THEN c ELSE accepted
  /\ named' = named

\* the same, for a command that carries a stream name.  Names are
\* interchangeable: the clients take them in the order of NameOrder.
AcceptNamed(c, name) ==
  /\ c <= accepted + 1
  /\ accepted' = IF c > accepted THEN c ELSE accepted
  /\ \E k \in 1..Len(NameOrder) :
       /\ NameOrder[k] = name
       /\ k <= named + 1
       /\ named' = IF k > named THEN k ELSE named

\* c has been accepted and its worker has handled a first command.  A worker
\* whose first message is metadata or deleteStream, or whose first read
\* fails, ends with MissingMediaStream, Ok or the read error and has touched
\* nothing: the runs with it are the runs without it.  (A fresh connection
\* whose first message is a video frame is kept, with Accept.)
Began(c) ==
  /\ c <= accepted
  /\ UNCHANGED <<accepted, named>>

\* The worker of c is about to read its next message.
Ready(c) == status[c] = "open" /\ pc[c] = "read" /\ ops < MaxOps

\* serve returns Err(e): the worker ends, nothing else happens.
Errored(c) == status' = [status EXCEPT ![c] = "failed"]

\* ------------------------------------------------------------- handlers
\* handle_publish: the whole handler runs under the registry lock
PublishCode(entry) ==
  IF entry.published THEN "NetStream.Publish.Denied"
  ELSE "NetStream.Publish.Start"

Publish(c, name) ==
  /\ Ready(c)
  /\ ~poisoned
  /\ ops' = ops + 1
  /\ LET ms1 == OrInsert(media_streams, name)
         denied == ms1[name].published
         code == PublishCode(ms1[name])
     IN /\ media_streams' = [ms1 EXCEPT ![name].published = TRUE]
        /\ publisherOf' = IF denied THEN publisherOf
                          ELSE [publisherOf EXCEPT ![name] = c]
        /\ IF WriteOk(c)
           THEN /\ wire' = [wire EXCEPT ![c] = Append(@,
                              WireMsg(3, RTMP_NET_CONNECTION_STREAM_ID, 0,
                                      RTMP_COMMAND_MESSAGE_AMF0,
                                      on_status(code, TRUE)))]
                /\ stream_name' = [stream_name EXCEPT ![c] = name]
                /\ UNCHANGED status
           ELSE /\ Errored(c)
                /\ UNCHANGED <<wire, stream_name>>
  /\ UNCHANGED <<pc, arg, peerOpen, poisoned, clock, admitted, everPaused,
                 owed, got, lastBroadcast, admission, pauseFlag>>
  /\ UNCHANGED <<wireVars, chunkVars, replyVars, amfVars>>

\* handle_play, lines 232-287: the replies written before the lock is taken
PlayBegin(c, name) ==
  /\ Ready(c)
  /\ ops' = ops + 1
  /\ IF WriteOk(c)
     THEN /\ wire' = [wire EXCEPT ![c] = @ \o PlayReplies]
          /\ pc' = [pc EXCEPT ![c] = "play_lock"]
          /\ arg' = [arg EXCEPT ![c].name = name]
          /\ UNCHANGED status
     ELSE /\ Errored(c)
          /\ UNCHANGED <<wire, pc, arg>>
  /\ UNCHANGED <<media_streams, stream_name, peerOpen, poisoned, clock,
                 histVars>>
  /\ UNCHANGED <<wireVars, chunkVars, replyVars, amfVars>>

\* The replay of the cached metadata in handle_play.
MetadataReplay(metadata) ==
  WireMsg(3, metadata.header.message_stream_id, metadata.header.timestamp,
          RTMP_DATA_MESSAGE_AMF0, metadata.message)

\* handle_play, lines 295-304: "Stream has already begun, send metadata first"
\* (variant: the cached metadata is not replayed)
ReplayCached_Skip(w, cached) == w

ReplayCached(w, cached) ==
  IF cached # <<>> THEN Append(w, MetadataReplay(cached[1])) ELSE w

\* handle_play, lines 290-307: under the lock
PlayAdmit(c) ==
  /\ status[c] = "open"
  /\ pc[c] = "play_lock"
  /\ pc' = [pc EXCEPT ![c] = "read"]
  /\ IF poisoned
     THEN /\ status' = [status EXCEPT ![c] = "panicked"]
          /\ UNCHANGED <<media_streams, stream_name, wire, admitted,
                         admission>>
     ELSE LET name == arg[c].name
              ms1 == OrInsert(media_streams, name)
              cached == ms1[name].metadata
          IN IF cached # <<>> /\ ~WriteOk(c)
             THEN /\ Errored(c)
                  /\ media_streams' = ms1
                  /\ UNCHANGED <<stream_name, wire, admitted, admission>>
             ELSE /\ wire' = [wire EXCEPT ![c] = ReplayCached(@, cached)]
                  /\ media_streams' =
                       [ms1 EXCEPT ![name].clients = Append(@, RtmpClient(c))]
                  /\ stream_name' = [stream_name EXCEPT ![c] = name]
                  /\ admitted' = [admitted EXCEPT ![c] = @ \cup {name}]
                  /\ admission' = [admission EXCEPT ![c] =
                        [at |-> Len(wire[c]), clock |-> clock,
                         cached |-> cached]]
                  /\ UNCHANGED status
  /\ UNCHANGED <<arg, peerOpen, poisoned, clock, ops, publisherOf,
                 everPaused, owed, got, lastBroadcast, pauseFlag>>
  /\ UNCHANGED <<wireVars, chunkVars, replyVars, amfVars>>

\* handle_pause: under the lock from the flag update to the reply
\* (a client sends pause only after a play of its own was admitted)
\* (variant: the flag of every client of the stream is set)
SetPaused_All(clients, fd, pause) ==
  [i \in DOMAIN clients |-> [clients[i] EXCEPT !.paused = pause]]

SetPaused(clients, fd, pause) ==
  [i \in DOMAIN clients |->
     IF clients[i].from_fd = fd THEN [clients[i] EXCEPT !.paused = pause]
     ELSE clients[i]]

Pause(c, pause) ==
  /\ Ready(c)
  /\ admitted[c] # {}
  /\ ~poisoned
  /\ ops' = ops + 1
  /\ media_streams' =
       IF stream_name[c] \in DOMAIN media_streams
       THEN [media_streams EXCEPT ![stream_name[c]].clients =
               SetPaused(@, c, pause)]
       ELSE media_streams
  /\ everPaused' = IF pause THEN everPaused \cup {c} ELSE everPaused
  /\ pauseFlag' = [pauseFlag EXCEPT ![c] = <<pause>>]
  /\ IF WriteOk(c)
     THEN /\ wire' = [wire EXCEPT ![c] = Append(@,
                        WireMsg(3, RTMP_NET_CONNECTION_STREAM_ID, 0,
                                RTMP_COMMAND_MESSAGE_AMF0,
                                on_status("NetStream.Pause.Notify", TRUE)))]
          /\ UNCHANGED status
     ELSE /\ Errored(c)
          /\ UNCHANGED wire
  /\ UNCHANGED <<stream_name, pc, arg, peerOpen, poisoned, clock,
                 publisherOf, admitted, owed, got, lastBroadcast, admission>>
  /\ UNCHANGED <<wireVars, chunkVars, replyVars, amfVars>>

\* c is the connection whose publish of its stream name was accepted.
IsPublisher(c) ==
  stream_name[c] \in Names /\ publisherOf[stream_name[c]] = c

\* handle_delete_stream, and serve returning Ok(()) after it
DeleteStream(c) ==
  /\ Ready(c)
  /\ ~poisoned
  /\ ops' = ops + 1
  /\ media_streams' = MapRemove(media_streams, stream_name[c])
  /\ status' = [status EXCEPT ![c] = "closed"]
  /\ IF IsPublisher(c)
     THEN /\ publisherOf' = [publisherOf EXCEPT ![stream_name[c]] = 0]
          /\ admitted' = [s \in Conns |-> admitted[s] \ {stream_name[c]}]
     ELSE UNCHANGED <<publisherOf, admitted>>
  /\ UNCHANGED <<stream_name, pc, arg, wire, peerOpen, poisoned, clock,
                 everPaused, owed, got, lastBroadcast, admission, pauseFlag>>
  /\ UNCHANGED <<wireVars, chunkVars, replyVars, amfVars>>

\* HashMap::get_mut(name): Some(entry) or None
get_mut_OrDefault(ms, name) ==
  <<IF name \in DOMAIN ms THEN ms[name] ELSE RtmpMediaStreamDefault>>

get_mut(ms, name) == IF name \in DOMAIN ms THEN <<ms[name]>> ELSE <<>>

\* RtmpServer::broadcast with RtmpMediaStream::broadcast inside, under the
\* lock: the sends, then the removal of the clients whose send failed.
\* counted: the message is audio/video sent by the publisher of the name.
Broadcast(c, timestamp, type_id, message, counted) ==
  LET name == stream_name[c]
      entry == get_mut(media_streams, name)
  IN
  IF entry = <<>>
  THEN /\ status' = [status EXCEPT ![c] = "MissingMediaStream"]
       /\ UNCHANGED <<media_streams, wire, poisoned, owed, got, lastBroadcast>>
  ELSE LET clients == entry[1].clients
           offline == Offline(clients, peerOpen)
           r == RemoveOffline(clients, offline)
           m == WireMsg(3, message.header.message_stream_id, timestamp,
                        type_id, message.message)
           id == <<c, message.message.seq>>
       IN /\ wire' = BroadcastWire(wire, clients, peerOpen, m)
          /\ media_streams' =
               [n \in DOMAIN media_streams |->
                  IF n = name THEN [entry[1] EXCEPT !.clients = r.clients]
                  ELSE media_streams[n]]
          /\ poisoned' = r.panic
          /\ status' = IF r.panic THEN [status EXCEPT ![c] = "panicked"]
                       ELSE status
          /\ lastBroadcast' = [before |-> clients, failed |-> offline,
                               after |-> r.clients, panicked |-> r.panic]
          /\ owed' = [s \in Conns |->
                        IF /\ counted
                           /\ name \in admitted[s]
                           /\ status[s] = "open"
                           /\ peerOpen[s]
                           /\ s \notin everPaused
                        THEN Append(owed[s], id) ELSE owed[s]]
          /\ got' = [s \in Conns |->
                       IF counted
                       THEN got[s] \o
                            [i \in 1..TimesWritten(clients, peerOpen, s) |-> id]
                       ELSE got[s]]

\* The next audio/video/data message the client of c sends.
ClientMessage(c, type_id, cmd, code) ==
  Message(ClientStreamId, clock + 1, type_id,
          Payload(cmd, "", code, c, clock + 1))

\* handle_video_message (the clients alternate video and audio frames)
HandleVideo(c) ==
  /\ Ready(c)
  /\ clock % 2 = 0
  /\ ~poisoned
  /\ ops' = ops + 1
  /\ clock' = clock + 1
  /\ LET message == ClientMessage(c, RTMP_VIDEO_MESSAGE, "video", "")
     IN Broadcast(c, message.header.timestamp, RTMP_VIDEO_MESSAGE, message,
                  IsPublisher(c))
  /\ UNCHANGED <<stream_name, pc, arg, peerOpen, publisherOf, admitted,
                 everPaused, admission, pauseFlag>>
  /\ UNCHANGED <<wireVars, chunkVars, replyVars, amfVars>>

\* handle_audio_message
HandleAudio(c) ==
  /\ Ready(c)
  /\ clock % 2 = 1
  /\ ~poisoned
  /\ ops' = ops + 1
  /\ clock' = clock + 1
  /\ LET message == ClientMessage(c, RTMP_AUDIO_MESSAGE, "audio", "")
     IN Broadcast(c, message.header.timestamp, RTMP_AUDIO_MESSAGE, message,
                  IsPublisher(c))
  /\ UNCHANGED <<stream_name, pc, arg, peerOpen, publisherOf, admitted,
                 everPaused, admission, pauseFlag>>
  /\ UNCHANGED <<wireVars, chunkVars, replyVars, amfVars>>

\* handle_data_message, lines 421-431: decode, then broadcast under the lock
DataBroadcast(c) ==
  /\ Ready(c)
  /\ ~poisoned
  /\ ops' = ops + 1
  /\ clock' = clock + 1
  /\ LET message == ClientMessage(c, RTMP_DATA_MESSAGE_AMF0, "@setDataFrame",
                                  "onMetaData")
     IN /\ Broadcast(c, 0, RTMP_DATA_MESSAGE_AMF0, message, FALSE)
        /\ IF stream_name[c] \in DOMAIN media_streams
              /\ ~RemoveOffline(media_streams[stream_name[c]].clients,
                     Offline(media_streams[stream_name[c]].clients,
                             peerOpen)).panic
           THEN /\ pc' = [pc EXCEPT ![c] = "data_lock"]
                /\ arg' = [arg EXCEPT ![c].msg = <<message>>]
           ELSE UNCHANGED <<pc, arg>>
  /\ UNCHANGED <<stream_name, peerOpen, publisherOf, admitted, everPaused,
                 admission, pauseFlag>>
  /\ UNCHANGED <<wireVars, chunkVars, replyVars, amfVars>>

\* handle_data_message, lines 432-437: the lock is taken again for the cache
DataCache(c) ==
  /\ status[c] = "open"
  /\ pc[c] = "data_lock"
  /\ pc' = [pc EXCEPT ![c] = "read"]
  /\ arg' = [arg EXCEPT ![c].msg = <<>>]
  /\ IF poisoned
     THEN /\ status' = [status EXCEPT ![c] = "panicked"]
          /\ UNCHANGED media_streams
     ELSE IF stream_name[c] \notin DOMAIN media_streams
          THEN /\ status' = [status EXCEPT ![c] = "MissingMediaStream"]
               /\ UNCHANGED media_streams
          ELSE /\ media_streams' =
                    [media_streams EXCEPT ![stream_name[c]].metadata = arg[c].msg]
               /\ UNCHANGED status
  /\ UNCHANGED <<stream_name, wire, peerOpen, poisoned, clock, ops,
                 histVars>>
  /\ UNCHANGED <<wireVars, chunkVars, replyVars, amfVars>>

\* Mutex::lock().unwrap() on a poisoned lock, in any handler that starts by
\* taking it (publish, pause, deleteStream, audio, video, data)
LockPanic(c) ==
  /\ status[c] = "open"
  /\ pc[c] = "read"
  /\ poisoned
  /\ status' = [status EXCEPT ![c] = "panicked"]
  /\ UNCHANGED <<media_streams, stream_name, pc, arg, wire, peerOpen,
                 poisoned, clock, ops, histVars>>
  /\ UNCHANGED <<wireVars, chunkVars, replyVars, amfVars>>

\* handle_command_message on a command name: the names of the match have a
\* handler ("FCPublish" and "FCUnpublish" an empty one), every other name is
\* returned in the error.
\* (variant: a name without a handler is ignored)
handle_command_message_Ignored(cmd) == "Ok"

handle_command_message(cmd) ==
  IF cmd \in {"connect", "deleteStream", "releaseStream", "createStream",
              "play", "seek", "pause", "getStreamLength", "publish",
              "FCPublish", "FCUnpublish"}
  THEN "Ok"
  ELSE "UnknownCommandMessage(" \o cmd \o ")"

\* A command message whose name has no handler of its own in this model:
\* serve goes on after Ok and returns the error otherwise.
Command(c, cmd) ==
  /\ Ready(c)
  /\ ops' = ops + 1
  /\ arg' = [arg EXCEPT ![c].cmd = <<cmd>>]
  /\ status' = [status EXCEPT ![c] =
                  IF handle_command_message(cmd) = "Ok" THEN "open"
                  ELSE handle_command_message(cmd)]
  /\ UNCHANGED <<media_streams, stream_name, pc, wire, peerOpen,
                 poisoned, clock, histVars>>
  /\ UNCHANGED <<wireVars, chunkVars, replyVars, amfVars>>

\* serve returns Err for a reason that touches nothing else: the read fails
\* (peer closed, I/O error), the AMF is malformed, the message type is
\* unknown or AMF-3.
Fail(c) ==
  /\ Ready(c)
  /\ ops' = ops + 1
  /\ Errored(c)
  /\ UNCHANGED <<media_streams, stream_name, pc, arg, wire, peerOpen,
                 poisoned, clock, histVars>>
  /\ UNCHANGED <<wireVars, chunkVars, replyVars, amfVars>>

\* The peer of c goes away: from now on every write to its socket fails.
PeerClose(c) ==
  /\ peerOpen[c]
  /\ ops < MaxOps
  /\ ops' = ops + 1
  /\ peerOpen' = [peerOpen EXCEPT ![c] = FALSE]
  /\ UNCHANGED <<media_streams, stream_name, status, pc, arg, wire,
                 poisoned, clock, histVars>>
  /\ UNCHANGED <<wireVars, chunkVars, replyVars, amfVars>>

Next ==
  \/ \E c \in Conns, name \in Names : AcceptNamed(c, name) /\ Publish(c, name)
  \/ \E c \in Conns, name \in Names : AcceptNamed(c, name) /\ PlayBegin(c, name)
  \/ \E c \in Conns : Accept(c) /\ PlayAdmit(c)
  \/ \E c \in Conns, pause \in BOOLEAN : Accept(c) /\ Pause(c, pause)
  \/ \E c \in Conns : Began(c) /\ DeleteStream(c)
  \/ \E c \in Conns : Accept(c) /\ HandleVideo(c)
  \/ \E c \in Conns : Began(c) /\ HandleAudio(c)
  \/ \E c \in Conns : Began(c) /\ DataBroadcast(c)
  \/ \E c \in Conns : Accept(c) /\ DataCache(c)
  \/ \E c \in Conns : Accept(c) /\ LockPanic(c)
  \/ \E c \in Conns : Began(c) /\ Fail(c)
  \/ \E c \in Conns, cmd \in {"FCUnpublish", "closeStream"} :
       Began(c) /\ Command(c, cmd)
  \/ \E c \in Conns : Accept(c) /\ PeerClose(c)

Spec == Init /\ [][Next]_vars

\* ======================================================= claims, under Spec
IsMedia(m) == m.message_type_id \in {RTMP_AUDIO_MESSAGE, RTMP_VIDEO_MESSAGE}

\* Number of plays of s that got as far as the lock.
RECURSIVE PlayCountIn(_)
PlayCountIn(w) ==
  IF w = <<>> THEN 0
  ELSE (IF Head(w).message.code = "NetStream.Play.Start" THEN 1 ELSE 0)
       + PlayCountIn(Tail(w))

PlayCount(s) == PlayCountIn(wire[s])

\* s is a subscriber in good standing: its worker runs, its peer is there,
\* it never paused.
Healthy(s) == status[s] = "open" /\ peerOpen[s] /\ s \notin everPaused

\* The entries of a history that come from another connection than s.
FromOthers(q, s) == SelectSeq(q, LAMBDA e : e[1] # s)

\* C1: for a publisher P and a subscriber S of the same stream name, the
\* audio/video messages P handled after the admission of S are written to S
\* exactly once, in the order P handled them, and no other message of P is.
C1_DeliveredOnceInOrder ==
  \A s \in Conns :
    Healthy(s) => FromOthers(got[s], s) = FromOthers(owed[s], s)

\* C2: a publish on a name that already has a publisher is answered with
\* level "error", code NetStream.Publish.Denied, and the stream name of the
\* connection stays what it was.
C2_DeniedPublish ==
  [][\A c \in Conns :
       (/\ Len(wire'[c]) = Len(wire[c]) + 1
        /\ Last(wire'[c]).message.code = "NetStream.Publish.Denied")
       => (/\ Last(wire'[c]).message.level = "error"
           /\ stream_name'[c] = stream_name[c])]_vars

\* C3: once the connection of a publisher has ended, for whatever reason,
\* its stream is no longer registered as published, so the next publish of
\* the name is answered with NetStream.Publish.Start.
C3_EndedPublisherFreesName ==
  \A n \in Names :
    (publisherOf[n] # 0 /\ status[publisherOf[n]] # "open")
    => (n \notin DOMAIN media_streams \/ ~media_streams[n].published)

\* C4: deleteStream from a connection that is not the publisher of its
\* stream leaves the registry as it was.
C4_DeleteByNonPublisher ==
  [][\A c \in Conns :
       (status[c] = "open" /\ status'[c] = "closed" /\ ~IsPublisher(c))
       => media_streams' = media_streams]_vars

\* C5: a broadcast removes exactly the subscribers whose write failed, keeps
\* the others in order, and completes without aborting the worker.
C5_RemovesExactlyFailed ==
  /\ ~lastBroadcast.panicked
  /\ lastBroadcast.after =
       Without(lastBroadcast.before,
               {lastBroadcast.failed[i] : i \in DOMAIN lastBroadcast.failed}, 1)

\* C6: when the worker of a connection fails, the registry lock stays usable
\* for every other worker and no entry but the streams of the failing
\* connection changes.
C6_FailureConfined ==
  [][\A c \in Conns :
       (/\ status[c] = "open"
        /\ status'[c] \in {"failed", "MissingMediaStream", "panicked"})
       => (/\ ~poisoned'
           /\ \A n \in DOMAIN media_streams :
                (n # stream_name[c] /\ publisherOf'[n] # c)
                => (n \in DOMAIN media_streams'
                    /\ media_streams'[n] = media_streams[n]))]_vars

\* C8: a first play on a name with cached metadata writes the cached message
\* right after the play status messages and before any audio/video message,
\* and the audio/video written to the subscriber was handled after its
\* admission.
C8_MetadataBeforeMedia ==
  \A s \in Conns :
    (PlayCount(s) = 1 /\ admission[s].cached # <<>>)
    => LET i == admission[s].at + 1
       IN /\ i <= Len(wire[s])
          /\ i > Len(PlayReplies)
          /\ wire[s][i] = MetadataReplay(admission[s].cached[1])
          /\ SubSeq(wire[s], i - Len(PlayReplies), i - 1) = PlayReplies
          /\ \A j \in DOMAIN wire[s] :
               IsMedia(wire[s][j])
               => (j > i /\ wire[s][j].message.seq > admission[s].clock)

\* A subscriber got the cached metadata at its first play and a media
\* message after it.
C8_Witness ==
  \E s \in Conns :
    /\ PlayCount(s) = 1
    /\ admission[s].cached # <<>>
    /\ Len(wire[s]) > admission[s].at + 1
    /\ IsMedia(Last(wire[s]))

\* A step in which the pause command of c is answered.
PauseAnswered(c) ==
  /\ Len(wire'[c]) = Len(wire[c]) + 1
  /\ Last(wire'[c]).message.code = "NetStream.Pause.Notify"

\* The entries of the registry as (name, index) pairs.
Entries(ms) ==
  UNION {{<<n, i>> : i \in 1..Len(ms[n].clients)} : n \in DOMAIN ms}

C18_CachedWithoutWrapper ==
  \A n \in DOMAIN media_streams :
    media_streams[n].metadata # <<>> =>
      media_streams[n].metadata[1].message.cmd = "onMetaData"

\* C19: a healthy subscriber that is in the subscriber list of a stream has
\* been written the metadata message the stream has cached, by the broadcast
\* or by the replay at play.
C19_MetadataReachesSubscriber ==
  \A n \in DOMAIN media_streams :
    \A i \in 1..Len(media_streams[n].clients) :
      LET s == media_streams[n].clients[i].from_fd
      IN (Healthy(s) /\ media_streams[n].metadata # <<>>) =>
           \E j \in 1..Len(wire[s]) :
             wire[s][j].message = media_streams[n].metadata[1].message

\* C20: a message of a client is written to a subscriber, or cached as the
\* metadata of a stream, only when the client is the connection whose publish
\* of the name was answered with NetStream.Publish.Start.
C20_OnlyPublisherBroadcasts ==
  [][/\ \A s \in Conns :
          (/\ clock' # clock
           /\ Len(wire'[s]) > Len(wire[s])
           /\ Last(wire'[s]).message.src # 0)
          => IsPublisher(Last(wire'[s]).message.src)
     /\ \A n \in DOMAIN media_streams' :
          (/\ n \in DOMAIN media_streams
           /\ media_streams'[n].metadata # media_streams[n].metadata)
          => publisherOf[n] = media_streams'[n].metadata[1].message.src]_vars

\* C21: a connection appears at most once in the subscriber list of any
\* stream, also after it has sent play more than once, so one broadcast never
\* writes a message to the same connection twice (broadcast writes once per
\* entry of the list).
C21_SubscribedOnce ==
  \A n \in DOMAIN media_streams :
    \A i, j \in DOMAIN media_streams[n].clients :
      media_streams[n].clients[i].from_fd
        = media_streams[n].clients[j].from_fd => i = j

C34_UnknownCommand ==
  [][\A c \in Conns :
       LET Supported == {"connect", "deleteStream", "releaseStream",
                         "createStream", "play", "seek", "pause",
                         "getStreamLength", "publish", "FCPublish",
                         "FCUnpublish"}
           unknown == arg'[c].cmd # <<>> /\ arg'[c].cmd[1] \notin Supported
       IN /\ unknown =>
               status'[c] = "UnknownCommandMessage(" \o arg'[c].cmd[1] \o ")"
          /\ (unknown /\ status[c] = "open") =>
               /\ wire' = wire
               /\ media_streams' = media_streams
               /\ stream_name' = stream_name
               /\ \A d \in Conns \ {c} : status'[d] = status[d]]_vars

\* the worker of a subscriber has ended on the command closeStream, after
\* the replies of its play, and its name is still in the registry
C34_Witness ==
  \E c \in Conns :
    /\ arg[c].cmd = <<"closeStream">>
    /\ status[c] = "UnknownCommandMessage(closeStream)"
    /\ wire[c] # <<>>
    /\ \E n \in DOMAIN media_streams :
         \E i \in DOMAIN media_streams[n].clients :
           media_streams[n].clients[i].from_fd = c

\* C39: an audio, video or data message that the worker of c handles, c
\* being on the stream name A, is written only to connections in the client
\* list of media_streams[A], never to a connection that is only in the list
\* of another name, and the step changes no entry of media_streams but A's.
C39_OnlyOwnSubscribers ==
  [][\A c \in Conns :
       (HandleVideo(c) \/ HandleAudio(c) \/ DataBroadcast(c)) =>
         LET A == stream_name[c]
         IN /\ \A s \in Conns :
                 wire'[s] # wire[s] =>
                   /\ A \in DOMAIN media_streams
                   /\ \E i \in 1..Len(media_streams[A].clients) :
                        media_streams[A].clients[i].from_fd = s
            /\ DOMAIN media_streams' = DOMAIN media_streams
            /\ \A n \in DOMAIN media_streams \ {A} :
                 media_streams'[n] = media_streams[n]]_vars

\* the publisher of one name has sent a frame that a subscriber of that name
\* got, while a subscriber of the other name, in its list only, got none
C39_Witness ==
  \E c, s, t \in Conns :
    \E A, B \in DOMAIN media_streams :
      /\ A # B
      /\ IsPublisher(c)
      /\ stream_name[c] = A
      /\ \E i \in 1..Len(media_streams[A].clients) :
           media_streams[A].clients[i].from_fd = s
      /\ \E i \in 1..Len(media_streams[B].clients) :
           media_streams[B].clients[i].from_fd = t
      /\ \A i \in 1..Len(media_streams[A].clients) :
           media_streams[A].clients[i].from_fd # t
      /\ \E i \in 1..Len(wire[s]) :
           /\ IsMedia(wire[s][i])
           /\ wire[s][i].message.src = c
      /\ \A i \in 1..Len(wire[t]) : ~IsMedia(wire[t][i])

\* =========================================================== SpecBroadcast
\* RtmpMediaStream::broadcast on any subscriber list the plays, pauses and
\* departures of the clients can have left: the session starts with the
\* stream "live" published by the last connection, a list of up to MaxClients
\* subscriber entries and any of the peers gone, and handles MaxRounds more
\* messages.
MaxClients == 3
MaxRounds == 2

\* handle_play pushes in arrival order and handle_pause flags every entry
\* a connection has at that time, so an entry of a connection is paused only
\* if its earlier entries are.
ClientLists ==
  {q \in UNION {[1..k -> [from_fd : Conns, paused : BOOLEAN]] :
                  k \in 0..MaxClients} :
     \A i, j \in DOMAIN q :
       (i < j /\ q[i].from_fd = q[j].from_fd /\ q[j].paused) => q[i].paused}

InitBroadcast ==
  /\ InitIdle
  /\ amfValue = AmfNull
  /\ \E q \in ClientLists :
       /\ media_streams =
            [n \in {"live"} |-> [clients |-> q, metadata |-> <<>>,
                                 published |-> TRUE]]
       /\ stream_name =
            [c \in Conns |->
               IF c = NumConns \/ \E i \in DOMAIN q : q[i].from_fd = c
               THEN "live" ELSE ""]
       /\ admitted =
            [c \in Conns |->
               IF \E i \in DOMAIN q : q[i].from_fd = c THEN {"live"} ELSE {}]
       /\ everPaused = {q[i].from_fd : i \in {j \in DOMAIN q : q[j].paused}}
  /\ peerOpen \in [Conns -> BOOLEAN]
  /\ accepted = NumConns
  /\ named = 1
  /\ publisherOf = [n \in Names |-> IF n = "live" THEN NumConns ELSE 0]

NextBroadcast ==
  \/ \E c \in Conns : Began(c) /\ ops < MaxRounds /\ HandleVideo(c)
  \/ \E c \in Conns : Began(c) /\ ops < MaxRounds /\ HandleAudio(c)
  \/ \E c \in Conns, pause \in BOOLEAN :
       Began(c) /\ ops < MaxRounds /\ Pause(c, pause)

SpecBroadcast == InitBroadcast /\ [][NextBroadcast]_vars

\* C22: a broadcast writes nothing to a subscriber whose entries are paused
\* and keeps its paused entries in the list; a subscriber with an entry that
\* is not paused (never paused, or resumed) and a live socket is written the
\* message of every broadcast from then on, and nothing that was broadcast
\* while it was paused is written later.
C22_PausedSkippedAndKept ==
  [][lastBroadcast' # lastBroadcast =>
       LET before == lastBroadcast'.before
           after == lastBroadcast'.after
           Of(q, s, p) == {i \in DOMAIN q : q[i].from_fd = s /\ q[i].paused = p}
       IN \A s \in Conns :
            /\ Cardinality(Of(after, s, TRUE)) = Cardinality(Of(before, s, TRUE))
            /\ (Of(before, s, FALSE) = {}) => wire'[s] = wire[s]
            /\ (Of(before, s, FALSE) # {} /\ peerOpen[s])
                 => Len(wire'[s]) = Len(wire[s]) + Cardinality(Of(before, s, FALSE))
     ]_vars

\* The publisher and the subscribers of one name, none of them paused and
\* all their peers there: media and data messages are handled while peers
\* go away.  Every worker is a thread of its own: a worker that waits for
\* the registry lock gets its turn.
NextLive ==
  \/ \E c \in Conns : Began(c) /\ HandleVideo(c)
  \/ \E c \in Conns : Began(c) /\ DataBroadcast(c)
  \/ \E c \in Conns : Began(c) /\ DataCache(c)
  \/ \E c \in Conns : Began(c) /\ LockPanic(c)
  \/ \E c \in Conns : Began(c) /\ PeerClose(c)

InitLive ==
  /\ InitBroadcast
  /\ everPaused = {}
  /\ \A c \in Conns : peerOpen[c]

SpecLive ==
  /\ InitLive
  /\ [][NextLive]_vars
  /\ \A c \in Conns : WF_vars(Began(c) /\ DataCache(c))

MaxWireOps == 4

sessionOnly == <<status, pc, arg, wire, peerOpen, poisoned, histVars,
                 chunkVars, replyVars, amfVars>>

\* The write_all calls of one send_message (a message of one chunk).
\* what: the message the call belongs to.
Segment(by, no, what, part) ==
  [by |-> by, no |-> no, what |-> what, part |-> part]

SendMessageWrites(by, no, what) ==
  << Segment(by, no, what, 1), Segment(by, no, what, 2),
     Segment(by, no, what, 3) >>

\* The worker of c is between two messages.
Idle(c) ==
  /\ job[c] = <<>>
  /\ lockHolder # c
  /\ ops < MaxWireOps

\* handle_seek: send_message on the worker's own handle, no lock
Seek(c) ==
  /\ Idle(c)
  /\ ops' = ops + 1
  /\ clock' = clock + 1
  /\ job' = [job EXCEPT ![c] =
               SendMessageWrites(c, clock + 1, "NetStream.Seek.Notify")]
  /\ UNCHANGED <<media_streams, stream_name, sock, lockHolder, bjob,
                 sessionOnly>>

\* handle_create_stream: one _result, no lock
CreateStream(c) ==
  /\ Idle(c)
  /\ ops' = ops + 1
  /\ clock' = clock + 1
  /\ job' = [job EXCEPT ![c] = SendMessageWrites(c, clock + 1, "_result")]
  /\ UNCHANGED <<media_streams, stream_name, sock, lockHolder, bjob,
                 sessionOnly>>

\* one write_all of the worker of c on its own socket
OwnWrite(c) ==
  /\ job[c] # <<>>
  /\ sock' = [sock EXCEPT ![c] = Append(@, Head(job[c]))]
  /\ job' = [job EXCEPT ![c] = Tail(@)]
  /\ UNCHANGED <<media_streams, stream_name, clock, ops, lockHolder, bjob,
                 sessionOnly>>

\* c has a send handle in some clients list.
Subscribed(c) ==
  \E n \in DOMAIN media_streams :
    \E i \in DOMAIN media_streams[n].clients :
      media_streams[n].clients[i].from_fd = c

\* handle_play of a connection that is in no clients list: nobody else holds
\* a handle of its socket, so its five replies are written undisturbed; then
\* lock, push, unlock (no metadata is cached here).
WirePlay(c, name) ==
  /\ Idle(c)
  /\ ~Subscribed(c)
  /\ lockHolder = 0
  /\ ops' = ops + 1
  /\ clock' = clock + Len(PlayReplies)
  /\ sock' = [sock EXCEPT ![c] =
               @ \o SendMessageWrites(c, clock + 1, PlayReplies[1].message.cmd)
                 \o SendMessageWrites(c, clock + 2, PlayReplies[2].message.cmd)
                 \o SendMessageWrites(c, clock + 3, PlayReplies[3].message.code)
                 \o SendMessageWrites(c, clock + 4, PlayReplies[4].message.code)
                 \o SendMessageWrites(c, clock + 5, PlayReplies[5].message.cmd)]
  /\ media_streams' =
       [OrInsert(media_streams, name) EXCEPT
          ![name].clients = Append(@, RtmpClient(c))]
  /\ stream_name' = [stream_name EXCEPT ![c] = name]
  /\ UNCHANGED <<job, lockHolder, bjob, sessionOnly>>

\* handle_publish: lock, entry, the answer on the worker's own socket, unlock
WirePublish(c, name) ==
  /\ Idle(c)
  /\ lockHolder = 0
  /\ ops' = ops + 1
  /\ clock' = clock + 1
  /\ media_streams' =
       [OrInsert(media_streams, name) EXCEPT ![name].published = TRUE]
  /\ sock' = [sock EXCEPT ![c] =
               @ \o SendMessageWrites(c, clock + 1,
                       PublishCode(OrInsert(media_streams, name)[name]))]
  /\ stream_name' = [stream_name EXCEPT ![c] = name]
  /\ UNCHANGED <<job, lockHolder, bjob, sessionOnly>>

\* The writes of RtmpMediaStream::broadcast: send_message on the handle of
\* every client that is not paused, in list order.
RECURSIVE BroadcastWrites(_, _, _)
BroadcastWrites(clients, by, no) ==
  IF clients = <<>> THEN <<>>
  ELSE (IF Attempted(Head(clients))
        THEN [k \in 1..3 |-> [to |-> Head(clients).from_fd,
                              seg |-> Segment(by, no, "media", k)]]
        ELSE <<>>)
       \o BroadcastWrites(Tail(clients), by, no)

\* RtmpServer::broadcast, line 475: the lock is taken for an audio/video
\* message
BroadcastBegin(c) ==
  /\ Idle(c)
  /\ lockHolder = 0
  /\ stream_name[c] \in DOMAIN media_streams
  /\ ops' = ops + 1
  /\ clock' = clock + 1
  /\ lockHolder' = c
  /\ bjob' = BroadcastWrites(media_streams[stream_name[c]].clients, c,
                             clock + 1)
  /\ UNCHANGED <<media_streams, stream_name, sock, job, sessionOnly>>

\* one write_all of the broadcasting worker on the handle of a client
BroadcastWrite(c) ==
  /\ lockHolder = c
  /\ bjob # <<>>
  /\ sock' = [sock EXCEPT ![Head(bjob).to] = Append(@, Head(bjob).seg)]
  /\ bjob' = Tail(bjob)
  /\ UNCHANGED <<media_streams, stream_name, clock, ops, job, lockHolder,
                 sessionOnly>>

\* RtmpServer::broadcast returns: the guard is dropped
BroadcastEnd(c) ==
  /\ lockHolder = c
  /\ bjob = <<>>
  /\ lockHolder' = 0
  /\ UNCHANGED <<media_streams, stream_name, clock, ops, sock, job, bjob,
                 sessionOnly>>

NextWire ==
  \/ \E c \in Conns : Accept(c) /\ Seek(c)
  \/ \E c \in Conns : Accept(c) /\ CreateStream(c)
  \/ \E c \in Conns : Accept(c) /\ WirePlay(c, "live")
  \/ \E c \in Conns : Accept(c) /\ OwnWrite(c)
  \/ \E c \in Conns : Accept(c) /\ WirePublish(c, "live")
  \/ \E c \in Conns : Accept(c) /\ BroadcastBegin(c)
  \/ \E c \in Conns : Accept(c) /\ BroadcastWrite(c)
  \/ \E c \in Conns : Accept(c) /\ BroadcastEnd(c)

SpecWire == Init /\ [][NextWire]_vars

\* C7: on every socket the write_all calls of one message are adjacent: its
\* basic header, message header and payload are written before the first
\* byte of any other message.
C7_WritesSerialized ==
  \A c \in Conns : \A i \in DOMAIN sock[c] :
    LET g == sock[c][i]
    IN /\ g.part > 1 =>
            (i > 1 /\ sock[c][i - 1] = [g EXCEPT !.part = g.part - 1])
       /\ (g.part < 3 /\ i < Len(sock[c])) =>
            sock[c][i + 1] = [g EXCEPT !.part = g.part + 1]

\* =============================================================== SpecReply
\* handle_connect and handle_play at the granularity of send_message: every
\* call is a step, so that the peer can go away between two replies.

\* messages handled and peers lost in a run of SpecReply
MaxReplyOps == 3

\* The messages handle_connect writes (seq: the payload as a big-endian
\* number, for _result the transaction id).
\* (variant: the _result is written first)
ConnectReplies_ResultFirst ==
  << WireMsg(3, RTMP_NET_CONNECTION_STREAM_ID, 0, RTMP_COMMAND_MESSAGE_AMF0,
             Payload("_result", "status", "NetConnection.Connect.Success",
                     0, 1)),
     WireMsg(RTMP_PROTOCOL_CONTROL_CHUNK_STREAM_ID,
             RTMP_PROTOCOL_CONTROL_MESSAGE_STREAM_ID, 0, RTMP_ACKNOWLEDGEMENT,
             Payload("Acknowledgement", "", "", 0, 7122)),
     WireMsg(RTMP_PROTOCOL_CONTROL_CHUNK_STREAM_ID,
             RTMP_PROTOCOL_CONTROL_MESSAGE_STREAM_ID, 0, RTMP_WINDOW_ACK_SIZE,
             Payload("WindowAcknowledgementSize", "", "", 0, 1048576)),
     WireMsg(RTMP_PROTOCOL_CONTROL_CHUNK_STREAM_ID,
             RTMP_PROTOCOL_CONTROL_MESSAGE_STREAM_ID, 0,
             RTMP_SET_PEER_BANDWIDTH,
             Payload("SetPeerBandwidth", "", "", 0, 1048576 * 256 + 2)),
     WireMsg(RTMP_PROTOCOL_CONTROL_CHUNK_STREAM_ID,
             RTMP_PROTOCOL_CONTROL_MESSAGE_STREAM_ID, 0,
             RTMP_USER_CONTROL_MESSAGE,
             Payload("StreamBegin", "", "", 0, 0)) >>

ConnectReplies ==
  << WireMsg(RTMP_PROTOCOL_CONTROL_CHUNK_STREAM_ID,
             RTMP_PROTOCOL_CONTROL_MESSAGE_STREAM_ID, 0, RTMP_ACKNOWLEDGEMENT,
             Payload("Acknowledgement", "", "", 0, 7122)),
     WireMsg(RTMP_PROTOCOL_CONTROL_CHUNK_STREAM_ID,
             RTMP_PROTOCOL_CONTROL_MESSAGE_STREAM_ID, 0, RTMP_WINDOW_ACK_SIZE,
             Payload("WindowAcknowledgementSize", "", "", 0, 1048576)),
     WireMsg(RTMP_PROTOCOL_CONTROL_CHUNK_STREAM_ID,
             RTMP_PROTOCOL_CONTROL_MESSAGE_STREAM_ID, 0,
             RTMP_SET_PEER_BANDWIDTH,
             Payload("SetPeerBandwidth", "", "", 0, 1048576 * 256 + 2)),
     WireMsg(RTMP_PROTOCOL_CONTROL_CHUNK_STREAM_ID,
             RTMP_PROTOCOL_CONTROL_MESSAGE_STREAM_ID, 0,
             RTMP_USER_CONTROL_MESSAGE,
             Payload("StreamBegin", "", "", 0, 0)),
     WireMsg(3, RTMP_NET_CONNECTION_STREAM_ID, 0, RTMP_COMMAND_MESSAGE_AMF0,
             Payload("_result", "status", "NetConnection.Connect.Success",
                     0, 1)) >>

\* handle_connect up to its first send_message: assert_eq!(transaction_id, 1)
ReplyConnect(c, transaction_id) ==
  /\ Ready(c)
  /\ ops' = ops + 1
  /\ IF transaction_id # 1
     THEN /\ status' = [status EXCEPT ![c] = "panicked"]
          /\ UNCHANGED <<pc, sending, sendLog>>
     ELSE /\ pc' = [pc EXCEPT ![c] = "connect"]
          /\ sending' = [sending EXCEPT ![c] = ConnectReplies]
          /\ sendLog' = [sendLog EXCEPT ![c] =
                           [handler |-> "connect", calls |-> <<>>]]
          /\ UNCHANGED status
  /\ UNCHANGED <<media_streams, stream_name, arg, wire, peerOpen, poisoned,
                 clock, histVars, wireVars, chunkVars, amfVars>>

\* handle_play up to its first send_message
ReplyPlay(c, name) ==
  /\ Ready(c)
  /\ ops' = ops + 1
  /\ pc' = [pc EXCEPT ![c] = "play"]
  /\ arg' = [arg EXCEPT ![c].name = name]
  /\ sending' = [sending EXCEPT ![c] = PlayReplies]
  /\ sendLog' = [sendLog EXCEPT ![c] = [handler |-> "play", calls |-> <<>>]]
  /\ UNCHANGED <<media_streams, stream_name, status, wire, peerOpen, poisoned,
                 clock, histVars, wireVars, chunkVars, amfVars>>

\* self.message_stream.send_message(...)?: the next reply of the handler
SendNext(c) ==
  /\ status[c] = "open"
  /\ sending[c] # <<>>
  /\ sendLog' = [sendLog EXCEPT ![c].calls =
                   Append(@, [message |-> Head(sending[c]), ok |-> WriteOk(c)])]
  /\ IF WriteOk(c)
     THEN /\ wire' = [wire EXCEPT ![c] = Append(@, Head(sending[c]))]
          /\ sending' = [sending EXCEPT ![c] = Tail(@)]
          /\ pc' = [pc EXCEPT ![c] =
                      IF Tail(sending[c]) # <<>> THEN @
                      ELSE IF @ = "play" THEN "play_lock" ELSE "read"]
          /\ UNCHANGED status
     ELSE /\ Errored(c)
          /\ sending' = [sending EXCEPT ![c] = <<>>]
          /\ UNCHANGED <<wire, pc>>
  /\ UNCHANGED <<media_streams, stream_name, arg, peerOpen, poisoned, clock,
                 ops, histVars, wireVars, chunkVars, amfVars>>

\* The sends of a handler touch the socket of its own connection only: a
\* step of another connection that writes to no socket commutes with them,
\* and is taken before the first or after the last of them.
Apart(c) == \A d \in Conns \ {c} : sending[d] = <<>>

NextReply ==
  \/ \E c \in Conns, t \in {1, 2} :
       Accept(c) /\ Apart(c) /\ ops < MaxReplyOps /\ ReplyConnect(c, t)
  \/ \E c \in Conns, name \in Names :
       AcceptNamed(c, name) /\ Apart(c) /\ ops < MaxReplyOps
       /\ ReplyPlay(c, name)
  \/ \E c \in Conns : Accept(c) /\ SendNext(c)
  \/ \E c \in Conns : Accept(c) /\ Apart(c) /\ PlayAdmit(c)
  \/ \E c \in Conns, name \in Names :
       AcceptNamed(c, name) /\ Apart(c) /\ ops < MaxReplyOps
       /\ Publish(c, name)
  \/ \E c \in Conns : Accept(c) /\ ops < MaxReplyOps /\ DataBroadcast(c)
  \/ \E c \in Conns : Accept(c) /\ Apart(c) /\ DataCache(c)
  \/ \E c \in Conns : Accept(c) /\ Apart(c) /\ ops < MaxReplyOps /\ PeerClose(c)

SpecReply == Init /\ [][NextReply]_vars

\* ================================================= claims, under SpecReply
\* C15: on connect the server writes Acknowledgement,
\* WindowAcknowledgementSize, SetPeerBandwidth (limit type 2) and UserControl
\* StreamBegin on chunk stream 2 / message stream 0 and then the AMF-0
\* _result(1, NetConnection.Connect.Success) on chunk stream 3 / message
\* stream 0, in this order; once a write has failed no later one is tried.
C15_ConnectReplyOrder ==
  [][\A c \in Conns :
       (/\ sendLog'[c] # sendLog[c]
        /\ sendLog'[c].handler = "connect"
        /\ sendLog'[c].calls # <<>>)
       => LET calls == sendLog'[c].calls
              i == Len(calls)
              m == calls[i].message
          IN /\ i <= 5
             /\ \A j \in 1..(i - 1) : calls[j].ok
             /\ m.message_type_id =
                  <<RTMP_ACKNOWLEDGEMENT, RTMP_WINDOW_ACK_SIZE,
                    RTMP_SET_PEER_BANDWIDTH, RTMP_USER_CONTROL_MESSAGE,
                    RTMP_COMMAND_MESSAGE_AMF0>>[i]
             /\ m.chunk_stream_id = IF i < 5 THEN 2 ELSE 3
             /\ m.message_stream_id = 0
             /\ i = 3 => m.message.seq % 256 = 2
             /\ i = 4 => m.message.cmd = "StreamBegin"
             /\ i = 5 => /\ m.message.cmd = "_result"
                         /\ m.message.seq = 1
                         /\ m.message.code = "NetConnection.Connect.Success"
             /\ IF calls[i].ok
                THEN wire'[c] = Append(wire[c], m)
                ELSE /\ wire'[c] = wire[c]
                     /\ status'[c] = "failed"
                     /\ sending'[c] = <<>>]_vars

\* one connect was answered in full, another broke off at a failed write
C15_Witness ==
  \E c, d \in Conns :
    /\ sendLog[c].handler = "connect"
    /\ Len(sendLog[c].calls) = 5
    /\ sendLog[c].calls[5].ok
    /\ Len(wire[c]) = 5
    /\ sendLog[d].handler = "connect"
    /\ Len(sendLog[d].calls) \in 2..4
    /\ ~Last(sendLog[d].calls).ok

\* The number of entries connection c has in the clients lists.
EntriesOf(ms, c) ==
  Cardinality({e \in Entries(ms) : ms[e[1]].clients[e[2]].from_fd = c})

\* C16: play adds the connection to the subscribers of the stream only after
\* SetChunkSize(0x7FFFFFFF), StreamBegin, onStatus Play.Reset, onStatus
\* Play.Start and the |RtmpSampleAccess data message have been written to it
\* in this order, and together with the write of the cached metadata if
\* there is one; a play that fails at one of these writes adds nothing.
C16_AdmittedAfterReplies ==
  [][\A c \in Conns :
       /\ (/\ status[c] = "open"
           /\ status'[c] = "failed"
           /\ pc[c] \in {"play", "play_lock"})
          => EntriesOf(media_streams', c) <= EntriesOf(media_streams, c)
       /\ EntriesOf(media_streams', c) > EntriesOf(media_streams, c)
          => LET calls == sendLog[c].calls
                 n == arg[c].name
                 cached == IF n \in DOMAIN media_streams
                           THEN media_streams[n].metadata ELSE <<>>
             IN /\ sendLog[c].handler = "play"
                /\ Len(calls) = 5
                /\ \A i \in 1..5 : calls[i].ok
                /\ [i \in 1..5 |-> calls[i].message.message_type_id] =
                     <<RTMP_SET_CHUNK_SIZE, RTMP_USER_CONTROL_MESSAGE,
                       RTMP_COMMAND_MESSAGE_AMF0, RTMP_COMMAND_MESSAGE_AMF0,
                       RTMP_DATA_MESSAGE_AMF0>>
                /\ calls[1].message.message.seq = 2147483647
                /\ calls[2].message.message.cmd = "StreamBegin"
                /\ calls[3].message.message.code = "NetStream.Play.Reset"
                /\ calls[4].message.message.code = "NetStream.Play.Start"
                /\ calls[5].message.message.cmd = "|RtmpSampleAccess"
                /\ wire'[c] = IF cached = <<>> THEN wire[c]
                              ELSE Append(wire[c], MetadataReplay(cached[1]))
                /\ media_streams'[n].clients =
                     Append(OrInsert(media_streams, n)[n].clients,
                            RtmpClient(c))]_vars

\* a play was admitted to a stream with cached metadata, which is the last
\* message written to it
C16_Witness ==
  \E c \in Conns :
    /\ sendLog[c].handler = "play"
    /\ Len(sendLog[c].calls) = 5
    /\ admission[c].cached # <<>>
    /\ EntriesOf(media_streams, c) = 1
    /\ Last(wire[c]) = MetadataReplay(admission[c].cached[1])

\* C24: the commands of a connection take effect in the order connect, then
\* publish or play, then deleteStream: the stream name of a connection is set
\* (by publish or play) only once the reply to its connect,
\* NetConnection.Connect.Success, has been written to it, and after its
\* worker has returned for deleteStream nothing of the connection changes.
C24_ConnectFirst ==
  [][\A c \in Conns :
       /\ stream_name'[c] # stream_name[c]
            => \E i \in DOMAIN wire[c] :
                 wire[c][i].message.code = "NetConnection.Connect.Success"
       /\ status[c] = "closed"
            => /\ status'[c] = "closed"
               /\ stream_name'[c] = stream_name[c]
               /\ pc'[c] = pc[c]]_vars

\* =============================================================== SpecChunk
\* read_message of stream.rs on the bytes of one connection, and the
\* SetChunkSize handler of server.rs on the messages it returns.
MaxChunks == 5
MaxLen == 3

\* timestamp deltas (type 1 and 2 chunks) and chunk sizes the client uses
Deltas == {5}
\* the client sends the shortest and the longest message
Lengths == {1, MaxLen}
ChunkSizes == {1, 2}

Min(a, b) == IF a < b THEN a ELSE b

\* utils.rs aggregate: the bytes folded with (sum << 8) | byte
RECURSIVE combine(_, _)
combine(sum, bytes) ==
  IF bytes = <<>> THEN sum
  ELSE combine(sum * 256 + Head(bytes), Tail(bytes))

Reverse(q) == [i \in 1..Len(q) |-> q[Len(q) + 1 - i]]

aggregate(buffer, is_little_endian) ==
  IF buffer = <<>> THEN 0
  ELSE IF is_little_endian THEN combine(0, Reverse(buffer))
  ELSE combine(0, buffer)

\* u32::from_be_bytes.  TLC's integers are 32-bit signed: a u32 of 2^31 or
\* more is held as the i32 with the same bits, a negative number.
from_be_bytes(bytes) ==
  IF bytes # <<>> /\ Head(bytes) >= 128
  THEN (Head(bytes) - 256) * 16777216 + aggregate(Tail(bytes), FALSE)
  ELSE aggregate(bytes, FALSE)

\* to_be_bytes / to_le_bytes of the client
BE(v, n) == [i \in 1..n |-> (v \div (256 ^ (n - i))) % 256]

Take(q, n) == SubSeq(q, 1, n)
Drop(q, n) == SubSeq(q, n + 1, Len(q))

ChunkMessageHeaderDefault ==
  [timestamp |-> 0, message_length |-> 0, message_type_id |-> 0,
   message_stream_id |-> 0, timestamp_delta |-> 0]

\* read_chunk_basic_header on the bytes buf.  ok is FALSE while the bytes
\* it needs have not arrived (read_exact blocks).
read_chunk_basic_header(buf) ==
  IF Len(buf) < 1 THEN [ok |-> FALSE]
  ELSE LET header == buf[1]
           chunk_type == header \div 64
           low == header % 64
           extra == IF low = 0 THEN 1 ELSE IF low = 1 THEN 2 ELSE 0
       IN IF Len(buf) < 1 + extra THEN [ok |-> FALSE]
          ELSE LET id == IF extra = 0 THEN low
                         ELSE 64 + aggregate(SubSeq(buf, 2, 1 + extra), FALSE)
               IN [ok |-> TRUE,
                   chunk_stream_id |-> id % 65536,
                   chunk_type |-> chunk_type,
                   overflow |-> id > 65535,
                   rest |-> Drop(buf, 1 + extra)]

CHUNK_MESSAGE_HEADER_SIZE == <<11, 7, 3, 0>>

\* (message_header.timestamp + message_header.timestamp_delta) % 0xFFFFFF.
\* A u32 of 2^31 or more is held as the i32 with the same bits (see
\* from_be_bytes).  overflows: the u32 sum a + b passes 2^32 - 1, where a
\* build with overflow checks panics and one without wraps.
overflows(a, b) ==
  IF a < 0 /\ b < 0 THEN TRUE
  ELSE IF a >= 0 /\ b >= 0 THEN FALSE
  ELSE a + b >= 0

\* The wrapped sum modulo 0xFFFFFF, reduced term by term to stay within
\* TLC's integers: 2^32 is 256 modulo 0xFFFFFF.
Advance(timestamp, delta) ==
  LET U24(v) == IF v < 0 THEN ((v % 16777215) + 256) % 16777215
                ELSE v % 16777215
  IN (U24(timestamp) + U24(delta)
      + (IF overflows(timestamp, delta) THEN 16777215 - 256 ELSE 0))
     % 16777215

\* read_chunk_message_header on the bytes after the basic header.
\* result: "ok", "InvalidTimestamp" or "blocked".
read_chunk_message_header(buf, chunk_stream_id, chunk_type, prev) ==
  LET known == chunk_stream_id \in DOMAIN prev
      h0 == IF known THEN prev[chunk_stream_id][1]
            ELSE ChunkMessageHeaderDefault
      prev_chunk_type == IF known THEN prev[chunk_stream_id][2] ELSE 0
  IN IF chunk_type = 3
     THEN LET delta == IF prev_chunk_type = 0 THEN h0.timestamp
                       ELSE h0.timestamp_delta
          IN [result |-> "ok",
              header |-> [h0 EXCEPT !.timestamp_delta = delta,
                                    !.timestamp = Advance(h0.timestamp, delta)],
              overflow |-> overflows(h0.timestamp, delta),
              rest |-> buf]
     ELSE LET size == CHUNK_MESSAGE_HEADER_SIZE[chunk_type + 1]
          IN IF Len(buf) < size THEN [result |-> "blocked"]
             ELSE LET buffer == Take(buf, size)
                      h1 == IF chunk_type < 2
                            THEN [h0 EXCEPT
                                    !.message_length =
                                       aggregate(SubSeq(buffer, 4, 6), FALSE),
                                    !.message_type_id = buffer[7]]
                            ELSE h0
                      h2 == IF chunk_type = 0
                            THEN [h1 EXCEPT !.message_stream_id =
                                    from_be_bytes(Reverse(SubSeq(buffer, 8, 11)))]
                            ELSE h1
                      short == aggregate(SubSeq(buffer, 1, 3), FALSE)
                      extended == short = 16777215
                      after == Drop(buf, size)
                  IN IF extended /\ Len(after) < 4 THEN [result |-> "blocked"]
                     ELSE LET timestamp_or_delta ==
                                IF extended THEN from_be_bytes(Take(after, 4))
                                ELSE short
                              rest == IF extended THEN Drop(after, 4) ELSE after
                          IN IF chunk_type = 0
                             THEN [result |-> "ok",
                                   header |-> [h2 EXCEPT
                                      !.timestamp = timestamp_or_delta,
                                      !.timestamp_delta = 0],
                                   overflow |-> FALSE,
                                   rest |-> rest]
                             ELSE [result |-> "ok",
                                   header |-> [h2 EXCEPT
                                      !.timestamp_delta = timestamp_or_delta,
                                      !.timestamp = Advance(h2.timestamp,
                                                            timestamp_or_delta)],
                                   overflow |-> overflows(h2.timestamp,
                                                          timestamp_or_delta),
                                   rest |-> rest]

\* Map insert / remove (HashMap)
MapPut(m, k, v) == [x \in DOMAIN m \cup {k} |-> IF x = k THEN v ELSE m[x]]
MapDel(m, k) == [x \in DOMAIN m \ {k} |-> m[x]]

\* read_message, line 149: the payload bytes this chunk carries
\* (variant: the bytes already received are not subtracted)
buffer_size_NoProgress(max_read, message_length, received) ==
  Min(max_read, message_length)

\* (variant: a chunk after the first is taken to be of the full chunk size)
buffer_size_FullChunk(max_read, message_length, received) ==
  IF received = 0 THEN Min(max_read, message_length) ELSE max_read

\* (a chunk size of 2^31 or more, held as a negative number, is the larger)
buffer_size(max_read, message_length, received) ==
  IF max_read < 0 THEN message_length - received
  ELSE Min(max_read, message_length - received)

\* read_message, lines 161-166: the header kept for the chunk stream
\* (variants: one header is kept for all chunk streams; the header of every
\* chunk is kept, not only of a first chunk)
remember_Shared(prev, csid, header, chunk_type, is_first_chunk) ==
  IF is_first_chunk
  THEN [k \in DOMAIN prev \cup {csid} |-> <<header, chunk_type>>]
  ELSE prev

remember_EveryChunk(prev, csid, header, chunk_type, is_first_chunk) ==
  MapPut(prev, csid, <<header, chunk_type>>)

remember(prev, csid, header, chunk_type, is_first_chunk) ==
  IF is_first_chunk THEN MapPut(prev, csid, <<header, chunk_type>>)
  ELSE prev

\* read_message on the bytes buf with the reader state (chans, prev, max_read).
read_message(buf, chans, prev, max_read) ==
  LET bh == read_chunk_basic_header(buf)
  IN IF ~bh.ok THEN [result |-> "blocked"]
     ELSE
     LET mh == read_chunk_message_header(bh.rest, bh.chunk_stream_id,
                                         bh.chunk_type, prev)
     IN IF mh.result # "ok" THEN [result |-> mh.result]
        ELSE
        LET csid == bh.chunk_stream_id
            is_first_chunk == csid \notin DOMAIN chans
            msg == IF is_first_chunk
                   THEN [header |-> mh.header, message |-> <<>>]
                   ELSE chans[csid]
            size == buffer_size(max_read, msg.header.message_length,
                                Len(msg.message))
        IN IF Len(mh.rest) < size THEN [result |-> "blocked"]
           ELSE
           LET msg1 == [msg EXCEPT !.message = @ \o Take(mh.rest, size)]
               complete == Len(msg1.message) = msg1.header.message_length
           IN [result |-> "ok",
               chunk_stream_id |-> csid,
               consumed |-> size,
               overflow |-> bh.overflow \/ mh.overflow,
               out |-> IF complete THEN <<msg1>> ELSE <<>>,
               channels |-> IF complete THEN MapDel(chans, csid)
                            ELSE MapPut(chans, csid, msg1),
               prev |-> remember(prev, csid, mh.header, bh.chunk_type,
                                 is_first_chunk),
               rest |-> Drop(mh.rest, size)]

\* handle_set_chunk_size: u32::from_be_bytes(payload) as usize
\* (variant: the payload is taken little-endian)
handle_set_chunk_size_LE(message) == aggregate(message.message, TRUE)

handle_set_chunk_size(message) == from_be_bytes(message.message)

\* handle_abort_message: channels.remove(&(chunk_stream_id as u16))
handle_abort_message(chans, message) ==
  MapDel(chans, from_be_bytes(message.message) % 65536)

\* handle_message: the arm the message type selects
Arm(message_type_id) ==
  IF message_type_id = RTMP_SET_CHUNK_SIZE THEN "set_chunk_size"
  ELSE IF message_type_id \in {RTMP_COMMAND_MESSAGE_AMF3, RTMP_DATA_MESSAGE_AMF3}
       THEN "Amf3NotSupported"
  ELSE IF message_type_id \in
            {RTMP_ABORT_MESSAGE, RTMP_WINDOW_ACK_SIZE,
             RTMP_USER_CONTROL_MESSAGE, RTMP_ACKNOWLEDGEMENT}
       THEN "control"
  ELSE IF message_type_id \in
            {RTMP_COMMAND_MESSAGE_AMF0, RTMP_DATA_MESSAGE_AMF0,
             RTMP_AUDIO_MESSAGE, RTMP_VIDEO_MESSAGE}
       THEN "session"
  ELSE "UnknownMessageTypeId"

\* The arms of handle_message for abort, acknowledgement, user control and
\* window acknowledgement size: "open" (Ok), "Io" (a read_u16 / read_u32 past
\* the end of the payload) or "panicked" (the assert_eq on the length).
handle_protocol_control(message) ==
  LET type_id == message.header.message_type_id
      n == Len(message.message)
  IN IF type_id = RTMP_WINDOW_ACK_SIZE
     THEN (IF message.header.message_length = 4 THEN "open" ELSE "panicked")
     ELSE IF type_id = RTMP_USER_CONTROL_MESSAGE
     THEN (IF n < 2 THEN "Io"
           ELSE IF /\ aggregate(Take(message.message, 2), FALSE)
                        = RTMP_USER_CONTROL_SET_BUFFER_LENGTH
                   /\ n < 10
                THEN "Io"
                ELSE "open")
     ELSE IF n < 4 THEN "Io" ELSE "open"

\* ---- the peer: an RTMP client that fragments with its current chunk size
MediaCsid == 3

ClientBasicHeader(fmt, csid) == <<fmt * 64 + csid>>

ClientTimestamp(t) ==
  IF t < 0 \/ t >= 16777215 THEN [short |-> BE(16777215, 3), ext |-> BE(t, 4)]
  ELSE [short |-> BE(t, 3), ext |-> <<>>]

ClientMessageHeader(fmt, t, len, type, msid) ==
  LET ts == ClientTimestamp(t)
  IN IF fmt = 0 THEN ts.short \o BE(len, 3) \o <<type>> \o Reverse(BE(msid, 4)) \o ts.ext
     ELSE IF fmt = 1 THEN ts.short \o BE(len, 3) \o <<type>> \o ts.ext
     ELSE IF fmt = 2 THEN ts.short \o ts.ext
     ELSE <<>>

ClientPayload(no, len) == [i \in 1..len |-> 16 * no + i]

\* the peer may write a chunk when serve has read everything written so far,
\* or is waiting in read_exact for bytes that have not arrived
Waiting ==
  /\ reader \in {"open", "HandshakeCorrupted"}
  /\ nsent < MaxChunks
  /\ read_message(inbuf, channels, prev_message_header,
                  max_chunk_size_read).result = "blocked"

sessionVars0 == <<media_streams, stream_name, status, pc, arg, wire, peerOpen,
                  poisoned, clock, ops, accepted, named, histVars, wireVars,
                  replyVars>>

sessionVars == <<sessionVars0, amfVars>>

\* ---- handle_handshake
HANDSHAKE_SIZE == 1536

\* c2[8..] == s1[8..], on the offsets at which the two blocks differ
\* (variant: the whole blocks are compared)
echoed_Whole(diff) == diff = {}

echoed(diff) == \A o \in diff : o < 8

\* the client sends C0, C1 and, after S1, its C2
ClientHello(c0, diff) ==
  /\ reader = "handshake"
  /\ hello = <<>>
  /\ hello' = <<[c0 |-> c0, diff |-> diff]>>
  /\ UNCHANGED <<sessionVars, inbuf, channels, prev_message_header,
                 max_chunk_size_read, reader, emitted, cchunk, cmsg, clast,
                 nsent, sent, reads, lastSet, sinceSet, alone, basic_header>>

\* serve, line 547: self.message_stream.handle_handshake()?
Handshake ==
  /\ reader = "handshake"
  /\ hello # <<>>
  /\ reader' = IF hello[1].c0 # 3 THEN "HandshakeCorrupted"
               ELSE IF echoed(hello[1].diff) THEN "open"
               ELSE "HandshakeCorrupted"
  /\ hello' = IF reader' = "open" THEN <<>> ELSE hello
  /\ UNCHANGED <<sessionVars, inbuf, channels, prev_message_header,
                 max_chunk_size_read, emitted, cchunk, cmsg, clast, nsent,
                 sent, reads, lastSet, sinceSet, alone, basic_header>>

\* first chunk of a message: header, and the first min(cchunk, len) bytes.
\* A type 3 chunk has no timestamp field of its own: the timestamp or delta t
\* that governs it is the one of the last header sent on the chunk stream,
\* and it carries the extended timestamp field when that one did.
ClientBegin(csid, fmt, t0, type, msid, payload, set) ==
  LET n == buffer_size(cchunk, Len(payload), 0)
      t == IF fmt = 3 THEN clast[csid].t ELSE t0
      \* the messages since the last type 0 chunk, as long as they go
      \* type 0, type 2, type 3, type 3, ...
      run == IF fmt = 0 \/ csid \notin DOMAIN sent THEN <<>>
             ELSE IF \/ fmt = 2 /\ Len(sent[csid].run) = 1
                     \/ fmt = 3 /\ Len(sent[csid].run) >= 2
             THEN sent[csid].run
             ELSE <<>>
  IN /\ inbuf' = inbuf \o ClientBasicHeader(fmt, csid)
                       \o (IF fmt = 3 THEN ClientTimestamp(t).ext
                           ELSE ClientMessageHeader(fmt, t, Len(payload),
                                                    type, msid))
                       \o Take(payload, n)
     /\ cmsg' = IF n = Len(payload) THEN MapDel(cmsg, csid)
                ELSE MapPut(cmsg, csid, Drop(payload, n))
     /\ clast' = MapPut(clast, csid, [len |-> Len(payload), type |-> type,
                                      fmt |-> fmt, t |-> t,
                                      whole |-> n = Len(payload)])
     /\ sent' = MapPut(sent, csid, [payload |-> payload,
                                    C |-> max_chunk_size_read,
                                    stable |-> TRUE, set |-> set,
                                    fmt |-> fmt, t |-> t,
                                    run |-> run \o <<[fmt |-> fmt, t |-> t]>>,
                                    before |-> IF csid \in DOMAIN clast
                                               THEN <<clast[csid]>>
                                               ELSE <<>>])
     /\ reads' = MapPut(reads, csid, <<>>)
     /\ cchunk' = IF set # 0 /\ n = Len(payload) THEN set ELSE cchunk
     /\ nsent' = nsent + 1

\* an audio/video message begins on the media chunk stream
SendMessage(fmt, t, len) ==
  /\ Waiting
  /\ MediaCsid \notin DOMAIN cmsg
  /\ fmt > 0 => MediaCsid \in DOMAIN clast
  /\ fmt > 1 => clast[MediaCsid].len = len
  /\ ClientBegin(MediaCsid, fmt, t, RTMP_VIDEO_MESSAGE, ClientStreamId,
                 ClientPayload(nsent, len), 0)
  /\ UNCHANGED <<sessionVars, channels, prev_message_header,
                 max_chunk_size_read, reader, emitted, lastSet, sinceSet,
                 alone, basic_header,
                 hello>>

\* a SetChunkSize(size) message begins on the protocol control chunk stream
SendSetChunkSize(size) ==
  /\ Waiting
  /\ RTMP_PROTOCOL_CONTROL_CHUNK_STREAM_ID \notin DOMAIN cmsg
  /\ ClientBegin(RTMP_PROTOCOL_CONTROL_CHUNK_STREAM_ID, 0, 0,
                 RTMP_SET_CHUNK_SIZE, RTMP_PROTOCOL_CONTROL_MESSAGE_STREAM_ID,
                 BE(size, 4), size)
  /\ UNCHANGED <<sessionVars, channels, prev_message_header,
                 max_chunk_size_read, reader, emitted, lastSet, sinceSet,
                 alone, basic_header,
                 hello>>

\* the next chunk of a message in progress: a type 3 header, the extended
\* timestamp field when the header of the message had one, and the next bytes
SendContinuation(csid) ==
  /\ Waiting
  /\ csid \in DOMAIN cmsg
  /\ LET rest == cmsg[csid]
         n == buffer_size(cchunk, Len(rest), 0)
     IN /\ inbuf' = inbuf \o ClientBasicHeader(3, csid)
                          \o ClientTimestamp(sent[csid].t).ext
                          \o Take(rest, n)
        /\ cmsg' = IF n = Len(rest) THEN MapDel(cmsg, csid)
                   ELSE MapPut(cmsg, csid, Drop(rest, n))
        /\ cchunk' = IF sent[csid].set # 0 /\ n = Len(rest)
                     THEN sent[csid].set ELSE cchunk
  /\ nsent' = nsent + 1
  /\ UNCHANGED <<sessionVars, channels, prev_message_header,
                 max_chunk_size_read, reader, emitted, clast, sent, reads,
                 lastSet, sinceSet, alone, basic_header, hello>>

\* A second reader that is given the chunks of chunk stream csid and no
\* others, with the chunk size of the connection: its state after the chunk
\* that was just read, and what the two readers returned for it.
Alone(csid, chunk, out) ==
  LET a == IF csid \in DOMAIN alone THEN alone[csid]
           ELSE [channels |-> EmptyMap, prev |-> EmptyMap]
      r == read_message(chunk, a.channels, a.prev, max_chunk_size_read)
  IN IF r.result = "ok" /\ r.rest = <<>>
     THEN [channels |-> r.channels, prev |-> r.prev, out |-> r.out,
           together |-> out, ok |-> TRUE]
     ELSE [channels |-> a.channels, prev |-> a.prev, out |-> <<>>,
           together |-> out, ok |-> FALSE]

\* one turn of the loop of serve: read_message, then, unless the payload
\* of the message it returned is not of the length of its header,
\* handle_message on that message
ReadMessage ==
  /\ reader = "open"
  /\ \E r \in {read_message(inbuf, channels, prev_message_header,
                             max_chunk_size_read)} :
        /\ r.result # "blocked"
        /\ \E wraps \in (IF r.result = "ok" /\ r.overflow THEN BOOLEAN
                         ELSE {TRUE}) :
           IF r.result # "ok" \/ ~wraps
           THEN /\ reader' = IF r.result # "ok" THEN r.result ELSE "panicked"
                /\ inbuf' = <<>>
                /\ UNCHANGED <<channels, prev_message_header,
                               max_chunk_size_read, emitted, sent, reads,
                               lastSet, sinceSet, alone, basic_header>>
           ELSE
           /\ inbuf' = r.rest
           /\ prev_message_header' = r.prev
           /\ UNCHANGED basic_header
           /\ alone' = MapPut(alone, r.chunk_stream_id,
                              Alone(r.chunk_stream_id,
                                    Take(inbuf, Len(inbuf) - Len(r.rest)),
                                    r.out))
           /\ reads' = IF r.chunk_stream_id \in DOMAIN reads
                       THEN [reads EXCEPT ![r.chunk_stream_id] =
                               Append(@, [n |-> r.consumed, out |-> r.out])]
                       ELSE reads
           /\ LET arm == IF r.out = <<>> THEN "none"
                         ELSE IF Len(r.out[1].message)
                                   # r.out[1].header.message_length
                         THEN "InconsistentMessageLength"
                         ELSE Arm(r.out[1].header.message_type_id)
                  asserted == arm = "set_chunk_size"
                                => r.out[1].header.message_length = 4
                  size == IF arm = "set_chunk_size" /\ asserted
                          THEN handle_set_chunk_size(r.out[1])
                          ELSE max_chunk_size_read
                  told == IF RTMP_PROTOCOL_CONTROL_CHUNK_STREAM_ID
                               \in DOMAIN sent
                          THEN sent[RTMP_PROTOCOL_CONTROL_CHUNK_STREAM_ID].set
                          ELSE 0
                  outcome == IF arm = "control"
                             THEN handle_protocol_control(r.out[1])
                             ELSE "open"
              IN /\ max_chunk_size_read' = size
                 /\ channels' =
                      IF /\ arm = "control"
                         /\ outcome = "open"
                         /\ r.out[1].header.message_type_id = RTMP_ABORT_MESSAGE
                      THEN handle_abort_message(r.channels, r.out[1])
                      ELSE r.channels
                 /\ reader' = IF ~asserted THEN "panicked"
                                ELSE IF arm \in {"InconsistentMessageLength",
                                                 "Amf3NotSupported",
                                                 "UnknownMessageTypeId"}
                                THEN arm
                                ELSE outcome
                 /\ emitted' = IF arm \in {"session", "control"} THEN r.out
                               ELSE emitted
                 /\ lastSet' = IF arm = "set_chunk_size" /\ asserted
                               THEN <<told>> ELSE lastSet
                 /\ sinceSet' = IF arm = "set_chunk_size" /\ asserted
                                THEN <<>>
                                ELSE Append(sinceSet, r.consumed)
                 /\ sent' = [k \in DOMAIN sent |->
                               IF size # max_chunk_size_read
                                  /\ k \in DOMAIN r.channels
                               THEN [sent[k] EXCEPT !.stable = FALSE]
                               ELSE sent[k]]
  /\ UNCHANGED <<sessionVars, cchunk, cmsg, clast, nsent, hello>>

\* the client's C0 byte, and the offsets at which its C2 differs from S1;
\* the timestamps of its type 0 chunks: 5 and 2^23
NextChunk ==
  \/ \E c0 \in {3, 6},
        diff \in {{}, {0}, {7}, {8}, {7, 8}, {HANDSHAKE_SIZE - 1}} :
       ClientHello(c0, diff)
  \/ Handshake
  \/ \E fmt \in 0..3 :
       \E t \in (IF fmt = 0 THEN {5, 8388608} ELSE Deltas), len \in Lengths :
         SendMessage(fmt, t, len)
  \/ \E size \in ChunkSizes : SendSetChunkSize(size)
  \/ \E csid \in {RTMP_PROTOCOL_CONTROL_CHUNK_STREAM_ID, MediaCsid} :
       SendContinuation(csid)
  \/ ReadMessage

SpecChunk == Init /\ [][NextChunk]_vars

\* C9: with max_chunk_size_read = C >= 1 throughout, a message of L >= 1
\* bytes sent as chunks on one chunk stream makes read_message consume
\* min(C, remaining) payload bytes per chunk, return nothing for the first
\* ceil(L/C) - 1 chunks, and return on chunk ceil(L/C) one message whose
\* payload is the L bytes in the order they were sent.
C9_Reassembly ==
  \A csid \in DOMAIN sent :
    LET L == Len(sent[csid].payload)
        C == sent[csid].C
        N == (L + C - 1) \div C
        r == reads[csid]
    IN (sent[csid].stable /\ C >= 1 /\ L >= 1) =>
         /\ Len(r) <= N
         /\ \A i \in DOMAIN r :
              /\ r[i].n = Min(C, L - (i - 1) * C)
              /\ i < N => r[i].out = <<>>
              /\ i = N => /\ Len(r[i].out) = 1
                          /\ r[i].out[1].message = sent[csid].payload

\* a message that took more than one chunk has been returned whole
C9_Witness ==
  \E csid \in DOMAIN sent :
    /\ sent[csid].stable
    /\ sent[csid].C < Len(sent[csid].payload)
    /\ Len(reads[csid]) > 1
    /\ Last(reads[csid]).out # <<>>
    /\ Last(reads[csid]).out[1].message = sent[csid].payload

\* C10: once a SetChunkSize(C') message has been handled, max_chunk_size_read
\* is C' and every chunk read afterwards, on any chunk stream, carries at most
\* C' payload bytes, until the next SetChunkSize is handled.
C10_ChunksBounded ==
  lastSet # <<>> =>
    /\ max_chunk_size_read = lastSet[1]
    /\ \A i \in DOMAIN sinceSet : sinceSet[i] <= lastSet[1]

\* a chunk of exactly C' bytes was read after SetChunkSize(C'), and the
\* message it belongs to is still incomplete
C10_Witness ==
  /\ lastSet # <<>>
  /\ \E i \in DOMAIN sinceSet : sinceSet[i] = lastSet[1]
  /\ MediaCsid \in DOMAIN channels

\* C11: a message that begins with a type 0 chunk of timestamp T0 and
\* continues in type 3 chunks is returned with timestamp T0, and from its
\* first chunk on the header kept for its chunk stream is the one of that
\* type 0 chunk: the continuation chunks advance no timestamp.
C11_ContinuationKeepsTimestamp ==
  \A csid \in DOMAIN sent :
    (sent[csid].fmt = 0 /\ reads[csid] # <<>>) =>
      /\ csid \in DOMAIN prev_message_header
      /\ prev_message_header[csid][1].timestamp = sent[csid].t
      /\ prev_message_header[csid][2] = 0
      /\ Last(reads[csid]).out # <<>> =>
           Last(reads[csid]).out[1].header.timestamp = sent[csid].t

\* a message of more than one chunk, begun with a type 0 chunk, was returned
C11_Witness ==
  \E csid \in DOMAIN sent :
    /\ sent[csid].fmt = 0
    /\ Len(reads[csid]) > 1
    /\ Last(reads[csid]).out # <<>>
    /\ Last(reads[csid]).out[1].header.timestamp = sent[csid].t

\* C12: when a type 0 chunk of timestamp T0 carries a whole message and the
\* next chunk on the chunk stream is a type 3 chunk that carries a whole
\* message too, the second message is returned with timestamp 2 * T0.
C12_DeltaReapplied ==
  \A csid \in DOMAIN sent :
    (/\ sent[csid].fmt = 3
     /\ sent[csid].before # <<>>
     /\ sent[csid].before[1].fmt = 0
     /\ sent[csid].before[1].whole
     /\ Len(reads[csid]) = 1
     /\ reads[csid][1].out # <<>>)
    => reads[csid][1].out[1].header.timestamp = 2 * sent[csid].before[1].t

\* C28: the reader keeps its reassembly state per chunk stream.  With chunks
\* of different chunk streams interleaved, the partial message and the last
\* header it holds for a chunk stream, and every message it returns there
\* (with the type 1, 2 and 3 headers filled in from that last header), are
\* those of a reader that is given the chunks of that chunk stream alone.
C28_PerChunkStream ==
  \A csid \in DOMAIN alone :
    /\ alone[csid].ok
    /\ alone[csid].out = alone[csid].together
    /\ csid \in DOMAIN channels <=> csid \in DOMAIN alone[csid].channels
    /\ csid \in DOMAIN channels =>
         channels[csid] = alone[csid].channels[csid]
    /\ csid \in DOMAIN prev_message_header
    /\ prev_message_header[csid] = alone[csid].prev[csid]

\* a message that began with a type 1, 2 or 3 chunk was returned on the media
\* chunk stream after more than one chunk, while a message of the protocol
\* control chunk stream is incomplete
C28_Witness ==
  /\ MediaCsid \in DOMAIN alone
  /\ alone[MediaCsid].together # <<>>
  /\ Len(reads[MediaCsid]) > 1
  /\ sent[MediaCsid].fmt > 0
  /\ RTMP_PROTOCOL_CONTROL_CHUNK_STREAM_ID \in DOMAIN channels

\* C14: a C2 block that differs from S1 at an offset >= 8 makes the handshake
\* fail with HandshakeCorrupted, after which the connection reads no chunk,
\* handles no message and changes nothing in the registry; a C2 block that
\* differs from S1 only at offsets 0..7 passes.
C14_HandshakeCorrupted ==
  [][/\ (reader = "handshake" /\ reader' # "handshake") =>
          /\ (\E o \in hello[1].diff : o >= 8) =>
                reader' = "HandshakeCorrupted"
          /\ (hello[1].c0 = 3 /\ \A o \in hello[1].diff : o < 8) =>
                reader' = "open"
     /\ reader' = "HandshakeCorrupted" =>
          /\ channels' = EmptyMap
          /\ prev_message_header' = EmptyMap
          /\ emitted' = <<>>
          /\ \A csid \in DOMAIN reads' : reads'[csid] = <<>>
          /\ media_streams' = media_streams]_vars

\* the handshake failed on a C2 that differs at an offset >= 8, and the chunk
\* the client wrote after it stays unread
C14_Witness ==
  /\ reader = "HandshakeCorrupted"
  /\ hello[1].c0 = 3
  /\ \E o \in hello[1].diff : o >= 8
  /\ inbuf # <<>>

\* C38: a partial message held for a chunk stream has fewer payload bytes
\* than the message_length of its header, every message read_message returns
\* has exactly message_length payload bytes, and serve never ends with
\* InconsistentMessageLength.
C38_PartialBelowLength ==
  /\ \A csid \in DOMAIN channels :
       Len(channels[csid].message) < channels[csid].header.message_length
  /\ \A csid \in DOMAIN reads :
       \A i \in 1..Len(reads[csid]) :
         \A j \in 1..Len(reads[csid][i].out) :
           Len(reads[csid][i].out[j].message)
             = reads[csid][i].out[j].header.message_length
  /\ \A i \in 1..Len(emitted) :
       Len(emitted[i].message) = emitted[i].header.message_length
  /\ reader # "InconsistentMessageLength"

\* a message of MaxLen bytes has been returned from more than one chunk and
\* the next message on that chunk stream is held with a part of its payload
C38_Witness ==
  /\ MediaCsid \in DOMAIN channels
  /\ channels[MediaCsid].message # <<>>
  /\ channels[MediaCsid].header.message_length = MaxLen
  /\ MediaCsid \in DOMAIN reads
  /\ emitted # <<>>
  /\ emitted[1].header.message_length = MaxLen
  /\ Len(emitted[1].message) = MaxLen
  /\ reader = "open"

\* ============================================================= SpecControl
\* The same reader and client after a good handshake, with the protocol
\* control messages a client can send: SetChunkSize (also with the high bit
\* of the size set), Abort (of the media chunk stream, and of the chunk
\* stream 65536 above it), Acknowledgement, UserControl SetBufferLength,
\* WindowAcknowledgementSize and SetPeerBandwidth.

\* a protocol control message begins on the protocol control chunk stream
SendControl(type_id, payload) ==
  /\ Waiting
  /\ RTMP_PROTOCOL_CONTROL_CHUNK_STREAM_ID \notin DOMAIN cmsg
  /\ ClientBegin(RTMP_PROTOCOL_CONTROL_CHUNK_STREAM_ID, 0, 0, type_id,
                 RTMP_PROTOCOL_CONTROL_MESSAGE_STREAM_ID, payload, 0)
  /\ UNCHANGED <<sessionVars, channels, prev_message_header,
                 max_chunk_size_read, reader, emitted, lastSet, sinceSet,
                 alone, basic_header,
                 hello>>

NextControl ==
  \/ ClientHello(3, {})
  \/ Handshake
  \/ \E len \in Lengths : SendMessage(0, 5, len)
  \/ \E size \in ChunkSizes \cup {from_be_bytes(<<128, 0, 0, 0>>)} :
       SendSetChunkSize(size)
  \/ \E m \in {<<RTMP_ABORT_MESSAGE, BE(MediaCsid, 4)>>,
               <<RTMP_ABORT_MESSAGE, BE(65536 + MediaCsid, 4)>>,
               <<RTMP_ACKNOWLEDGEMENT, BE(1, 4)>>,
               <<RTMP_USER_CONTROL_MESSAGE,
                 BE(RTMP_USER_CONTROL_SET_BUFFER_LENGTH, 2)
                   \o BE(ClientStreamId, 4) \o BE(100, 4)>>,
               <<RTMP_WINDOW_ACK_SIZE, BE(1048576, 4)>>,
               <<RTMP_SET_PEER_BANDWIDTH, BE(1048576, 4) \o <<2>> >>} :
       SendControl(m[1], m[2])
  \/ \E csid \in {RTMP_PROTOCOL_CONTROL_CHUNK_STREAM_ID, MediaCsid} :
       SendContinuation(csid)
  \/ ReadMessage

SpecControl == Init /\ [][NextControl]_vars

\* The message whose last chunk this step read on chunk stream csid, if the
\* step is a read_message that returned one.
Handled(csid) ==
  IF /\ reader = "open"
     /\ csid \in DOMAIN reads
     /\ csid \in DOMAIN reads'
     /\ reads'[csid] # reads[csid]
     /\ reads'[csid] # <<>>
  THEN Last(reads'[csid]).out
  ELSE <<>>

\* C25: handling a well-formed protocol control message (types 1 to 6) never
\* ends the connection and changes neither the registry nor what the
\* connection publishes or plays.
C25_ControlKeepsSession ==
  [][\A csid \in DOMAIN reads :
       (/\ Handled(csid) # <<>>
        /\ Handled(csid)[1].header.message_type_id \in 1..6)
       => /\ reader' = "open"
          /\ media_streams' = media_streams
          /\ stream_name' = stream_name
          /\ publisherOf' = publisherOf]_vars

\* C26: a SetChunkSize whose size has the most significant bit set is not
\* applied: max_chunk_size_read is at most 2^31 - 1 at all times (a size of
\* 2^31 or more is held as a negative number).
C26_ChunkSizeBelow2p31 == max_chunk_size_read >= 0

\* C27: handling Abort(chunk_stream_id), for any chunk stream id from 2 to
\* 65599, removes the partial message of that chunk stream and leaves the
\* partial message of every other chunk stream and every header kept for a
\* chunk stream as they were.  (The chunk stream the Abort message itself
\* arrived on is set aside: reading its last chunk updates that one.)
C27_AbortDiscardsOne ==
  [][LET own == RTMP_PROTOCOL_CONTROL_CHUNK_STREAM_ID
     IN (/\ own \in DOMAIN reads
         /\ Handled(own) # <<>>
         /\ Handled(own)[1].header.message_type_id = RTMP_ABORT_MESSAGE)
        => LET chunk_stream_id == aggregate(Handled(own)[1].message, FALSE)
           IN /\ chunk_stream_id \notin DOMAIN channels'
              /\ \A k \in DOMAIN channels \ {own, chunk_stream_id} :
                   k \in DOMAIN channels' /\ channels'[k] = channels[k]
              /\ \A k \in DOMAIN prev_message_header \ {own} :
                   prev_message_header'[k] = prev_message_header[k]]_vars

\* ============================================================ SpecExtended
\* read_message on timestamps at the edge of the 24-bit field and of the
\* u32: 0xFFFFFE, the largest one without the extended timestamp field;
\* 0xFFFFFF, the smallest one with it; 2^32 - 1 (held as -1).
NextExtended ==
  \/ ClientHello(3, {})
  \/ Handshake
  \/ \E fmt \in 0..3 :
       \E t \in (IF fmt = 0 THEN {16777214, 16777215, -1} ELSE Deltas),
          len \in Lengths :
         SendMessage(fmt, t, len)
  \/ \E size \in ChunkSizes : SendSetChunkSize(size)
  \/ \E csid \in {RTMP_PROTOCOL_CONTROL_CHUNK_STREAM_ID, MediaCsid} :
       SendContinuation(csid)
  \/ ReadMessage

SpecExtended == Init /\ [][NextExtended]_vars

\* C31: when the header that governs a message used the 0xFFFFFF escape and
\* a type 3 chunk of the message therefore carries the 4-byte extended
\* timestamp field, read_message takes those 4 bytes as header: the message
\* it returns has the payload the sender sent.
C31_ExtendedNotPayload ==
  \A csid \in DOMAIN sent :
    (/\ sent[csid].t < 0 \/ sent[csid].t >= 16777215
     /\ sent[csid].stable
     /\ reads[csid] # <<>>
     /\ Last(reads[csid]).out # <<>>)
    => Last(reads[csid]).out[1].message = sent[csid].payload

\* C32: the first chunk of a message that is of type 1 or 2, or of type 3
\* after a chunk that was not of type 0, gives the message the timestamp of
\* the previous message of the chunk stream plus the delta, as a sum of
\* 32 bits that rolls over (here in two's complement): it is not reduced to
\* 24 bits, and the worker does not panic in the addition.
C32_RollingTimestamp ==
  [][\A csid \in DOMAIN sent :
       (/\ csid \in DOMAIN prev_message_header
        /\ reads[csid] = <<>>
        /\ Len(inbuf') < Len(inbuf)
        /\ read_chunk_basic_header(inbuf).chunk_stream_id = csid
        /\ \/ sent[csid].fmt \in {1, 2}
           \/ sent[csid].fmt = 3 /\ prev_message_header[csid][2] # 0)
       => /\ reader' # "panicked"
          /\ prev_message_header'[csid][1].timestamp =
               prev_message_header[csid][1].timestamp
               + (IF sent[csid].fmt = 3
                  THEN prev_message_header[csid][1].timestamp_delta
                  ELSE sent[csid].t)]_vars

\* C33: after a type 0 chunk of timestamp T0 and a type 2 chunk of delta d
\* on one chunk stream, each type 3 chunk that begins a message advances the
\* timestamp by d again: the messages are returned with the timestamps T0,
\* T0 + d, T0 + 2d, T0 + 3d and, from the second on, with timestamp_delta d.
C33_DeltaRepeats ==
  \A csid \in DOMAIN sent :
    LET run == sent[csid].run
        k == Len(run)
    IN (/\ k \in 1..4
        /\ run[1].fmt = 0
        /\ k >= 2 => run[2].fmt = 2
        /\ \A i \in 3..k : run[i].fmt = 3
        /\ reads[csid] # <<>>
        /\ Last(reads[csid]).out # <<>>)
       => LET header == Last(reads[csid]).out[1].header
          IN IF k = 1 THEN header.timestamp = run[1].t
             ELSE /\ header.timestamp = run[1].t + (k - 1) * run[2].t
                  /\ header.timestamp_delta = run[2].t

\* ============================================================== SpecHeader
\* The chunk basic header alone, as the tests of stream.rs exercise it: a
\* stream over a MockTcpStream whose cursor holds the bytes the reader is
\* given.  basic_header is <<>> before the write, <<w>> after it and
\* <<w, r>> after the read: w.bytes the bytes put in the cursor, w.sent the
\* header send_chunk_basic_header was given (<<>> when the test wrote the
\* bytes itself), r the outcome of read_chunk_basic_header.

\* send_chunk_basic_header: the bytes written for header.
send_chunk_basic_header(header) ==
  IF header.chunk_stream_id < 64
  THEN <<header.chunk_stream_id + header.chunk_type * 64>>
  ELSE IF header.chunk_stream_id < 320
  THEN <<header.chunk_type * 64 + 1, (header.chunk_stream_id - 64) % 256>>
  ELSE <<header.chunk_type * 64,
         ((header.chunk_stream_id - 64) \div 256) % 256,
         (header.chunk_stream_id - 64) % 256>>

\* MockTcpStream { cursor: io::Cursor::new(bytes), .. }
MockCursor(bytes) ==
  /\ basic_header = <<>>
  /\ inbuf' = bytes
  /\ basic_header' = <<[bytes |-> bytes, sent |-> <<>>]>>
  /\ UNCHANGED <<sessionVars, hello, channels, prev_message_header,
                 max_chunk_size_read, reader, emitted, cchunk, cmsg, clast,
                 nsent, sent, reads, lastSet, sinceSet, alone>>

\* stream.send_chunk_basic_header(header), then consume_buffer()
SendBasicHeader(header) ==
  /\ basic_header = <<>>
  /\ inbuf' = send_chunk_basic_header(header)
  /\ basic_header' = <<[bytes |-> send_chunk_basic_header(header),
                        sent |-> <<header>>]>>
  /\ UNCHANGED <<sessionVars, hello, channels, prev_message_header,
                 max_chunk_size_read, reader, emitted, cchunk, cmsg, clast,
                 nsent, sent, reads, lastSet, sinceSet, alone>>

\* stream.read_chunk_basic_header().  A cursor that ends before the bytes
\* the form needs fails read_exact with UnexpectedEof; 64 + the u16 read
\* panics in a build with overflow checks and wraps in one without.
ReadBasicHeader ==
  /\ Len(basic_header) = 1
  /\ LET r == read_chunk_basic_header(inbuf)
     IN IF ~r.ok
        THEN /\ inbuf' = <<>>
             /\ basic_header' = Append(basic_header,
                                       [result |-> "UnexpectedEof",
                                        header |-> <<>>])
        ELSE \E wraps \in (IF r.overflow THEN BOOLEAN ELSE {TRUE}) :
               /\ inbuf' = r.rest
               /\ basic_header' =
                    Append(basic_header,
                           IF wraps
                           THEN [result |-> "Ok",
                                 header |-> <<[chunk_stream_id |->
                                                 r.chunk_stream_id,
                                               chunk_type |-> r.chunk_type]>>]
                           ELSE [result |-> "panicked", header |-> <<>>])
  /\ UNCHANGED <<sessionVars, hello, channels, prev_message_header,
                 max_chunk_size_read, reader, emitted, cchunk, cmsg, clast,
                 nsent, sent, reads, lastSet, sinceSet, alone>>

\* The cursors: every chunk type with the markers 0 and 1 and the ids 2 and
\* 63 in the first byte, followed by two bytes.  The headers sent: the ids
\* at the edges of the three forms that the u16 field can hold.
NextHeader ==
  \/ \E t \in 0..3, low \in {0, 1, 2, 63}, b1 \in {0, 1, 255},
        b2 \in {0, 1, 255} : MockCursor(<<t * 64 + low, b1, b2>>)
  \/ \E t \in 0..3, csid \in {2, 63, 64, 319, 320, 65535} :
        SendBasicHeader([chunk_stream_id |-> csid, chunk_type |-> t])
  \/ ReadBasicHeader

SpecHeader == Init /\ [][NextHeader]_vars

\* C29: read_chunk_basic_header yields the chunk type of the two high bits
\* and, for the low six bits: 1, 64 + byte1 + byte2 * 256 (the two next
\* bytes little-endian, any pair of bytes); 0, 64 + the next byte;
\* otherwise the six-bit value itself.
C29_BasicHeaderForms ==
  (Len(basic_header) = 2 /\ basic_header[1].sent = <<>>) =>
    LET b == basic_header[1].bytes
        low == b[1] % 64
        csid == IF low = 1 THEN 64 + b[2] + b[3] * 256
                ELSE IF low = 0 THEN 64 + b[2]
                ELSE low
    IN basic_header[2] =
         [result |-> "Ok",
          header |-> <<[chunk_stream_id |-> csid,
                        chunk_type |-> b[1] \div 64]>>]

\* C30: the basic header that send_chunk_basic_header writes for a chunk
\* stream id and a chunk type 0..3 is read back by read_chunk_basic_header
\* as the same chunk stream id and chunk type.
C30_BasicHeaderRoundTrip ==
  (Len(basic_header) = 2 /\ basic_header[1].sent # <<>>) =>
    basic_header[2] = [result |-> "Ok", header |-> basic_header[1].sent]

\* ================================================================ SpecLoop
\* A message written by send_message and read back by read_message: the
\* writer and the reader of one stream, both with the chunk size C.
\* sent[csid] is what send_message was given (header, payload, C) and the
\* chunks it wrote.

\* send_chunk_message_header: the bytes written for header in a chunk of
\* type chunk_type (a u32 of 2^31 or more is held as a negative number).
send_chunk_message_header(header, chunk_type) ==
  LET timestamp_or_delta == IF chunk_type = 0 THEN header.timestamp
                            ELSE header.timestamp_delta
      extended == timestamp_or_delta < 0 \/ timestamp_or_delta >= 16777215
  IN IF chunk_type = 3 THEN <<>>
     ELSE BE(IF extended THEN 16777215 ELSE timestamp_or_delta, 3)
          \o (IF chunk_type < 2
              THEN BE(header.message_length % 16777216, 3)
                   \o <<header.message_type_id>>
              ELSE <<>>)
          \o (IF chunk_type = 0 THEN Reverse(BE(header.message_stream_id, 4))
              ELSE <<>>)
          \o (IF extended THEN BE(timestamp_or_delta, 4) ELSE <<>>)

\* send_message: the chunks written from ptr on, each with the bytes of its
\* headers and of its payload.
RECURSIVE send_message(_, _, _, _, _, _, _)
send_message(chunk_stream_id, message_stream_id, timestamp, message_type_id, message, max_chunk_size_write, ptr) ==
  IF ptr >= Len(message) THEN <<>>
  ELSE LET size == Min(max_chunk_size_write, Len(message) - ptr)
           chunk_type == IF ptr = 0 THEN 0 ELSE 3
       IN <<[chunk_type |-> chunk_type,
             header |->
               send_chunk_basic_header([chunk_stream_id |-> chunk_stream_id,
                                        chunk_type |-> chunk_type])
               \o send_chunk_message_header(
                    [timestamp |-> timestamp,
                     message_length |-> Len(message),
                     message_type_id |-> message_type_id,
                     message_stream_id |-> message_stream_id,
                     timestamp_delta |-> 0],
                    chunk_type),
             payload |-> SubSeq(message, ptr + 1, ptr + size)]>>
          \o send_message(chunk_stream_id, message_stream_id, timestamp,
                          message_type_id, message, max_chunk_size_write,
                          ptr + size)

\* stream.send_message(..) on a stream after the handshake, whose
\* max_chunk_size_write and max_chunk_size_read are C; the bytes written
\* are the bytes the reader is given.
SendLoop(chunk_stream_id, message_stream_id, timestamp, message_type_id, message, C) ==
  LET chunks == send_message(chunk_stream_id, message_stream_id, timestamp,
                             message_type_id, message, C, 0)
      bytes[i \in 0..Len(chunks)] ==
        IF i = 0 THEN <<>>
        ELSE bytes[i - 1] \o chunks[i].header \o chunks[i].payload
  IN /\ reader = "open"
     /\ inbuf = <<>>
     /\ sent = EmptyMap
     /\ inbuf' = bytes[Len(chunks)]
     /\ max_chunk_size_read' = C
     /\ sent' = MapPut(sent, chunk_stream_id,
                       [header |-> [timestamp |-> timestamp,
                                    message_length |-> Len(message),
                                    message_type_id |-> message_type_id,
                                    message_stream_id |-> message_stream_id],
                        payload |-> message, C |-> C, chunks |-> chunks])
     /\ reads' = MapPut(reads, chunk_stream_id, <<>>)
     /\ UNCHANGED <<sessionVars, channels, prev_message_header, reader,
                    emitted, lastSet, sinceSet, alone, basic_header, hello,
                    cchunk, cmsg, clast, nsent>>

\* The messages written: audio and video messages of 0..MaxLen bytes on the
\* chunk streams 3 and 64, with the timestamps 5, 0xFFFFFF and 0xFFFFFFFF,
\* in chunks of 1, 2 and 128 bytes.
NextLoop ==
  \/ ClientHello(3, {})
  \/ Handshake
  \/ \E csid \in {MediaCsid, 64}, t \in {5, 16777215, -1},
        type \in {RTMP_AUDIO_MESSAGE, RTMP_VIDEO_MESSAGE},
        len \in 0..MaxLen, C \in ChunkSizes \cup {128} :
       SendLoop(csid, ClientStreamId, t, type, [i \in 1..len |-> 16 + i], C)
  \/ ReadMessage

SpecLoop == Init /\ [][NextLoop]_vars

\* C37 as stated: send_message with the chunk size C writes a message of L
\* bytes as ceil(L / C) chunks, the first of type 0 and the others of type
\* 3, each with at most C bytes of payload; once read_message with the
\* chunk size C has read all it can, it has read every byte written and
\* returned exactly one message, with
\* the message stream id, timestamp, type, length and payload written,
\* whatever the length (0 included) and the timestamp (0xFFFFFF and more
\* included).
C37_SendReadRoundTrip ==
  \A csid \in DOMAIN sent :
    LET s == sent[csid]
        out == SelectSeq(reads[csid], LAMBDA x : x.out # <<>>)
    IN /\ Len(s.chunks) = (Len(s.payload) + s.C - 1) \div s.C
       /\ \A i \in 1..Len(s.chunks) :
            /\ s.chunks[i].chunk_type = (IF i = 1 THEN 0 ELSE 3)
            /\ Len(s.chunks[i].payload) <= s.C
       /\ (reader = "open" =>
             read_message(inbuf, channels, prev_message_header,
                          max_chunk_size_read).result = "blocked") =>
            /\ reader = "open"
            /\ inbuf = <<>>
            /\ Len(out) = 1
            /\ out[1].out[1].message = s.payload
            /\ \A f \in DOMAIN s.header :
                 out[1].out[1].header[f] = s.header[f]

\* ================================================================= SpecAmf
\* amf.rs on bytes.  A value is [tag, v]: Number: v the eight bytes of the
\* f64; Boolean: v a BOOLEAN; String: v its UTF-8 bytes; Object: v a function
\* from keys (UTF-8 bytes) to values; Reference: v a u16; EcmaArray: v a
\* sequence of <<key, value>>; StrictArray: v a sequence of values; Date:
\* v = <<the eight bytes of the f64, the i16>>.
MaxEntries == 2

NUMBER_MARKER == 0
BOOLEAN_MARKER == 1
STRING_MARKER == 2
OBJECT_MARKER == 3
MOVIECLIP_MARKER == 4
NULL_MARKER == 5
UNDEFINED_MARKER == 6
REFERENCE_MARKER == 7
ECMA_ARRAY_MARKER == 8
OBJECT_END_MARKER == 9
STRICT_ARRAY_MARKER == 10
DATE_MARKER == 11

AmfNumber(x) == [tag |-> "Number", v |-> x]
AmfBoolean(b) == [tag |-> "Boolean", v |-> b]
AmfString(s) == [tag |-> "String", v |-> s]
AmfObject(obj) == [tag |-> "Object", v |-> obj]
AmfUndefined == [tag |-> "Undefined", v |-> <<>>]
AmfReference(r) == [tag |-> "Reference", v |-> r]
AmfEcmaArray(q) == [tag |-> "EcmaArray", v |-> q]
AmfStrictArray(q) == [tag |-> "StrictArray", v |-> q]
AmfDate(d, t) == [tag |-> "Date", v |-> <<d, t>>]

\* ---- the values the check draws from
\* the property names: "", "a" and "b"
Keys == {<<>>, <<97>>, <<98>>}

\* the numbers 1.0 and the subnormal 00 09 00 00 00 00 00 00; the strings
\* "", "a", "ab"
AmfLeaves ==
  {AmfNumber(x) : x \in {<<63, 240, 0, 0, 0, 0, 0, 0>>,
                          <<0, 9, 0, 0, 0, 0, 0, 0>>}}
  \cup {AmfBoolean(b) : b \in BOOLEAN}
  \cup {AmfString(s) : s \in {<<>>, <<97>>, <<97, 98>>}}
  \cup {AmfNull, AmfUndefined}
  \cup {AmfReference(r) : r \in {0, 258}}
  \cup {AmfDate(<<63, 240, 0, 0, 0, 0, 0, 0>>, t) : t \in {0, -1}}

SeqsUpTo(S, n) == UNION {[1..m -> S] : m \in 0..n}

\* the containers with at most n entries whose values are in S
Containers(S, n) ==
  {AmfObject(obj) :
     obj \in UNION {[D -> S] : D \in {D \in SUBSET Keys : Cardinality(D) <= n}}}
  \cup {AmfEcmaArray(q) : q \in SeqsUpTo(Keys \X S, n)}
  \cup {AmfStrictArray(q) : q \in SeqsUpTo(S, n)}

AmfValues ==
  AmfLeaves \cup Containers(AmfLeaves, MaxEntries)
  \cup Containers(Containers(AmfLeaves, 1), 1)

\* ---- encode_amf_message_impl
\* HashMap::iter: the order is unspecified; first: the key it happens to
\* start with
RECURSIVE IterOrder(_, _)
IterOrder(keys, first) ==
  IF keys = {} THEN <<>>
  ELSE LET k == IF first \in keys THEN first ELSE CHOOSE x \in keys : TRUE
       IN <<k>> \o IterOrder(keys \ {k}, first)

RECURSIVE encode_amf_message_impl(_, _)
RECURSIVE EncodeProperties(_, _)
RECURSIVE EncodeValues(_, _)

\* (key.len() as u16).to_be_bytes(), key.as_bytes(), the value
EncodeProperties(entries, first) ==
  IF entries = <<>> THEN <<>>
  ELSE BE(Len(Head(entries)[1]) % 65536, 2) \o Head(entries)[1]
       \o encode_amf_message_impl(Head(entries)[2], first)
       \o EncodeProperties(Tail(entries), first)

EncodeValues(values, first) ==
  IF values = <<>> THEN <<>>
  ELSE encode_amf_message_impl(Head(values), first)
       \o EncodeValues(Tail(values), first)

encode_amf_message_impl(src, first) ==
  CASE src.tag = "Number" -> <<NUMBER_MARKER>> \o src.v
    [] src.tag = "Boolean" -> <<BOOLEAN_MARKER, IF src.v THEN 1 ELSE 0>>
    [] src.tag = "String" ->
         <<STRING_MARKER>> \o BE(Len(src.v) % 65536, 2) \o src.v
    [] src.tag = "Object" ->
         LET order == IterOrder(DOMAIN src.v, first)
         IN <<OBJECT_MARKER>>
            \o EncodeProperties([i \in 1..Len(order) |->
                                   <<order[i], src.v[order[i]]>>], first)
            \o <<0, 0, OBJECT_END_MARKER>>
    [] src.tag = "Null" -> <<NULL_MARKER>>
    [] src.tag = "Undefined" -> <<UNDEFINED_MARKER>>
    [] src.tag = "Reference" -> <<REFERENCE_MARKER>> \o BE(src.v, 2)
    [] src.tag = "EcmaArray" ->
         <<ECMA_ARRAY_MARKER>> \o BE(Len(src.v), 4)
         \o EncodeProperties(src.v, first) \o <<0, 0, OBJECT_END_MARKER>>
    [] src.tag = "StrictArray" ->
         <<STRICT_ARRAY_MARKER>> \o BE(Len(src.v), 4)
         \o EncodeValues(src.v, first)
    [] src.tag = "Date" -> <<DATE_MARKER>> \o src.v[1] \o BE((src.v[2] + 65536) % 65536, 2)

encode_amf_messages(src, first) == EncodeValues(src, first)

\* ---- decode_amf_message
\* a Result: err is "" for Ok, the Error, or "panic"
Ok(value, rest) == [err |-> "", value |-> value, rest |-> rest]
Err(e) == [err |-> e, value |-> AmfNull, rest |-> <<>>]

\* read_u32 as a loop count: a count beyond the bytes left runs into the end
\* of the buffer whatever it is
LoopCount(buf) ==
  IF buf[1] >= 128 THEN Len(buf) + 1
  ELSE Min(aggregate(Take(buf, 4), FALSE), Len(buf) + 1)

\* i16::from_be_bytes
\* (variant: the two bytes are taken as a u16)
read_i16_Unsigned(buf) == aggregate(Take(buf, 2), FALSE)

read_i16(buf) ==
  LET u == aggregate(Take(buf, 2), FALSE)
  IN IF u >= 32768 THEN u - 65536 ELSE u

\* String::from_utf8(bytes).is_ok(): the well-formed UTF-8 byte sequences
RECURSIVE from_utf8(_)
from_utf8(bytes) ==
  IF bytes = <<>> THEN TRUE
  ELSE LET b == Head(bytes)
           n == IF b < 128 THEN 1
                ELSE IF b \in 194..223 THEN 2
                ELSE IF b \in 224..239 THEN 3
                ELSE IF b \in 240..244 THEN 4
                ELSE 0
           second == IF b = 224 THEN 160..191
                     ELSE IF b = 237 THEN 128..159
                     ELSE IF b = 240 THEN 144..191
                     ELSE IF b = 244 THEN 128..143
                     ELSE 128..191
       IN /\ n > 0
          /\ Len(bytes) >= n
          /\ n >= 2 => bytes[2] \in second
          /\ \A i \in 3..n : bytes[i] \in 128..191
          /\ from_utf8(Drop(bytes, n))

RECURSIVE decode_amf_message(_)
RECURSIVE decode_amf_object_property(_)
RECURSIVE decode_amf_object(_, _)
RECURSIVE EcmaArrayEntries(_, _, _)
RECURSIVE StrictArrayEntries(_, _, _)

\* Ok(None): some = FALSE; Ok(Some((key, value))): some = TRUE
decode_amf_object_property(buf) ==
  IF Len(buf) < 2 THEN [err |-> "Io", some |-> FALSE, rest |-> <<>>]
  ELSE LET str_size == aggregate(Take(buf, 2), FALSE)
           after == Drop(buf, 2)
       IN IF str_size = 0
          THEN [err |-> "", some |-> FALSE, rest |-> after]
          ELSE IF Len(after) < str_size
          THEN [err |-> "Io", some |-> FALSE, rest |-> <<>>]
          ELSE IF ~from_utf8(Take(after, str_size))
          THEN [err |-> "panic", some |-> FALSE, rest |-> <<>>]
          ELSE LET r == decode_amf_message(Drop(after, str_size))
               IN [err |-> r.err, some |-> TRUE, key |-> Take(after, str_size),
                   value |-> r.value, rest |-> r.rest]

\* verify_type_marker(reader, OBJECT_END_MARKER), what: the value so far
ObjectEnd(buf, what) ==
  IF buf = <<>> THEN Err("Io")
  ELSE IF Head(buf) # OBJECT_END_MARKER THEN Err("AmfIncorrectTypeMarker")
  ELSE Ok(what, Tail(buf))

\* the loop of decode_amf_object
decode_amf_object(buf, map) ==
  LET p == decode_amf_object_property(buf)
  IN IF p.err # "" THEN Err(p.err)
     ELSE IF p.some THEN decode_amf_object(p.rest, MapPut(map, p.key, p.value))
     ELSE ObjectEnd(p.rest, AmfObject(map))

\* the for loop of decode_amf_ecma_array: a property that comes back as None
\* is passed over
EcmaArrayEntries(buf, n, result) ==
  IF n = 0 THEN Ok(result, buf)
  ELSE LET p == decode_amf_object_property(buf)
       IN IF p.err # "" THEN Err(p.err)
          ELSE EcmaArrayEntries(p.rest, n - 1,
                 IF p.some THEN Append(result, <<p.key, p.value>>)
                 ELSE result)

decode_amf_ecma_array(buf) ==
  IF Len(buf) < 4 THEN Err("Io")
  ELSE LET r == EcmaArrayEntries(Drop(buf, 4), LoopCount(buf), <<>>)
       IN IF r.err # "" THEN r
          ELSE LET p == decode_amf_object_property(r.rest)
               IN IF p.err # "" THEN Err(p.err)
                  ELSE IF p.some THEN Err("AmfIncorrectEndOfEcmaArray")
                  ELSE ObjectEnd(p.rest, AmfEcmaArray(r.value))

StrictArrayEntries(buf, n, result) ==
  IF n = 0 THEN Ok(AmfStrictArray(result), buf)
  ELSE LET r == decode_amf_message(buf)
       IN IF r.err # "" THEN r
          ELSE StrictArrayEntries(r.rest, n - 1, Append(result, r.value))

decode_amf_strict_array(buf) ==
  IF Len(buf) < 4 THEN Err("Io")
  ELSE StrictArrayEntries(Drop(buf, 4), LoopCount(buf), <<>>)

decode_amf_message(buf) ==
  IF buf = <<>> THEN Err("Io")
  ELSE LET type_marker == Head(buf)
           body == Tail(buf)
       IN CASE type_marker = NUMBER_MARKER ->
                 IF Len(body) < 8 THEN Err("Io")
                 ELSE Ok(AmfNumber(Take(body, 8)), Drop(body, 8))
            [] type_marker = BOOLEAN_MARKER ->
                 IF body = <<>> THEN Err("Io")
                 ELSE Ok(AmfBoolean(Head(body) # 0), Tail(body))
            [] type_marker = STRING_MARKER ->
                 IF Len(body) < 2 THEN Err("Io")
                 ELSE LET size == aggregate(Take(body, 2), FALSE)
                      IN IF Len(body) < 2 + size THEN Err("Io")
                         ELSE IF ~from_utf8(SubSeq(body, 3, 2 + size))
                         THEN Err("panic")
                         ELSE Ok(AmfString(SubSeq(body, 3, 2 + size)),
                                 Drop(body, 2 + size))
            [] type_marker = MOVIECLIP_MARKER -> Err("panic")
            [] type_marker = OBJECT_MARKER -> decode_amf_object(body, EmptyMap)
            [] type_marker = NULL_MARKER -> Ok(AmfNull, body)
            [] type_marker = UNDEFINED_MARKER -> Ok(AmfUndefined, body)
            [] type_marker = REFERENCE_MARKER ->
                 IF Len(body) < 2 THEN Err("Io")
                 ELSE Ok(AmfReference(aggregate(Take(body, 2), FALSE)),
                         Drop(body, 2))
            [] type_marker = ECMA_ARRAY_MARKER -> decode_amf_ecma_array(body)
            [] type_marker = OBJECT_END_MARKER -> Err("panic")
            [] type_marker = STRICT_ARRAY_MARKER ->
                 decode_amf_strict_array(body)
            [] type_marker = DATE_MARKER ->
                 IF Len(body) < 10 THEN Err("Io")
                 ELSE Ok(AmfDate(Take(body, 8), read_i16(Drop(body, 8))),
                         Drop(body, 10))
            [] OTHER -> Err("AmfIncorrectTypeMarker")

\* ---- the specification
InitAmf ==
  /\ InitServer
  /\ amfValue \in AmfValues

\* encode_amf_messages(&[v])
AmfEncode(first) ==
  /\ amfPc = "value"
  /\ amfBytes' = encode_amf_messages(<<amfValue>>, first)
  /\ amfPc' = "encoded"
  /\ UNCHANGED <<amfValue, amfResult, sessionVars0, chunkVars>>

\* The bytes come from a peer instead: value is the AmfObject they stand
\* for, AmfNull when they stand for none.
AmfReceive(value, bytes) ==
  /\ amfPc = "value"
  /\ amfValue = AmfNull
  /\ amfValue' = value
  /\ amfBytes' = bytes
  /\ amfPc' = "received"
  /\ UNCHANGED <<amfResult, sessionVars0, chunkVars>>

\* decode_amf_message(&mut Cursor::new(bytes))
AmfDecode ==
  /\ amfPc \in {"encoded", "received"}
  /\ amfResult' = decode_amf_message(amfBytes)
  /\ amfPc' = IF amfPc = "encoded" THEN "decoded" ELSE "parsed"
  /\ UNCHANGED <<amfValue, amfBytes, sessionVars0, chunkVars>>

\* What a peer sends: an EcmaArray of named properties with any count in its
\* count field; a value cut short; the reserved markers, an unknown marker,
\* and strings, as a value and as a property name, that are not UTF-8.
NextAmf ==
  \/ \E first \in Keys : AmfEncode(first)
  \/ \E count \in 0..(MaxEntries + 1),
        q \in SeqsUpTo((Keys \ {<<>>}) \X {AmfNull, AmfBoolean(TRUE)},
                       MaxEntries) :
       AmfReceive(AmfEcmaArray(q),
                  <<ECMA_ARRAY_MARKER>> \o BE(count, 4)
                  \o EncodeProperties(q, <<>>)
                  \o <<0, 0, OBJECT_END_MARKER>>)
  \/ \E bytes \in {<<MOVIECLIP_MARKER>>, <<OBJECT_END_MARKER>>, <<13>>,
                    <<STRING_MARKER, 0, 1, 255>>,
                    <<STRING_MARKER, 0, 2, 195, 169>>,
                    <<STRING_MARKER, 0, 2, 97>>,
                    <<NUMBER_MARKER, 63, 240>>,
                    <<OBJECT_MARKER, 0, 1, 192, NULL_MARKER,
                      0, 0, OBJECT_END_MARKER>>,
                    <<OBJECT_MARKER, 0, 1, 97, MOVIECLIP_MARKER,
                      0, 0, OBJECT_END_MARKER>>,
                    <<STRICT_ARRAY_MARKER, 0, 0, 0, 1, OBJECT_END_MARKER>>} :
       AmfReceive(AmfNull, bytes)
  \/ AmfDecode

SpecAmf == InitAmf /\ [][NextAmf]_vars

\* decode_amf_object_property, lines 53-55: a property whose name has length
\* 0 is the end of the properties.  x holds such a name somewhere.
RECURSIVE HasEmptyKey(_)
HasEmptyKey(x) ==
  CASE x.tag = "Object" ->
         <<>> \in DOMAIN x.v \/ \E k \in DOMAIN x.v : HasEmptyKey(x.v[k])
    [] x.tag = "EcmaArray" ->
         \E i \in 1..Len(x.v) : x.v[i][1] = <<>> \/ HasEmptyKey(x.v[i][2])
    [] x.tag = "StrictArray" -> \E i \in 1..Len(x.v) : HasEmptyKey(x.v[i])
    [] OTHER -> FALSE

\* C13 as stated: for every AmfObject v, whatever its property names,
\* decode_amf_message on encode_amf_messages([v]) returns v (an Object
\* whatever the order of its keys) and consumes exactly the encoded bytes.
C13_RoundTrip ==
  amfPc = "decoded" =>
    /\ amfResult.err = ""
    /\ amfResult.rest = <<>>
    /\ amfResult.value = amfValue

\* C13, amended: the same for every AmfObject v none of whose property
\* names, at any depth, is the empty string.
C13_RoundTripNamed ==
  (amfPc = "decoded" /\ ~HasEmptyKey(amfValue)) =>
    /\ amfResult.err = ""
    /\ amfResult.rest = <<>>
    /\ amfResult.value = amfValue

\* an EcmaArray of two named entries, the second a Date with a negative time
\* zone, has come back from the decoder
C13_Witness ==
  /\ amfPc = "decoded"
  /\ amfValue.tag = "EcmaArray"
  /\ Len(amfValue.v) = 2
  /\ amfValue.v[1][1] = <<97>>
  /\ amfValue.v[2][1] = <<98>>
  /\ amfValue.v[2][2].tag = "Date"
  /\ amfValue.v[2][2].v[2] < 0
  /\ amfResult.value = amfValue

\* C35 as stated: the count field of an EcmaArray is not trusted: whatever
\* the count says, more or fewer than the properties present or 0, the
\* decoder reads the named properties up to the terminator 00 00 09 and
\* returns exactly those pairs.
C35_CountNotTrusted ==
  (amfPc = "parsed" /\ amfValue.tag = "EcmaArray") =>
    amfResult = Ok(amfValue, <<>>)

\* C36 as stated: on every byte sequence decode_amf_message returns a value
\* or an error value; the markers 04 and 09, an unknown marker, a value cut
\* short and a string that is not UTF-8 never abort the worker.
C36_NeverAborts ==
  amfPc = "parsed" => amfResult.err # "panic"

====
